---- MODULE Spec2Model ----
(***************************************************************************)
(* Model of DatabaseManager (src/src/database/manager.ts): the translation *)
(* of restricted SQL text onto the REST client's primitives, and the       *)
(* safety checks of executeCustomQuery.                                    *)
(*                                                                         *)
(* A string is a sequence of one-character strings, so that toLowerCase,   *)
(* trim, includes, startsWith and the regular expressions of the source    *)
(* are computed character by character.                                    *)
(***************************************************************************)
EXTENDS Integers, Sequences, FiniteSets, TLC

\* ------------------------------------------------------------------ bounds
MaxRows == 3        \* rows of the backing table t
MaxNum == 2         \* numeric parameter values are 0..MaxNum
MaxParams == 2      \* length of a parameter list
MaxCap == 2         \* caller-supplied caps are 1..MaxCap

\* --------------------------------------------------------------- characters
UpperAlpha == <<"A","B","C","D","E","F","G","H","I","J","K","L","M",
                "N","O","P","Q","R","S","T","U","V","W","X","Y","Z">>
LowerAlpha == <<"a","b","c","d","e","f","g","h","i","j","k","l","m",
                "n","o","p","q","r","s","t","u","v","w","x","y","z">>
Digits == <<"0","1","2","3","4","5","6","7","8","9">>

Range26 == 1..26
UpperSet == {UpperAlpha[i] : i \in Range26}
LowerSet == {LowerAlpha[i] : i \in Range26}
DigitSet == {Digits[i] : i \in 1..10}
SpaceSet == {" ", "\n", "\t"}
WordSet == UpperSet \cup LowerSet \cup DigitSet \cup {"_"}
LowerOf == [c \in UpperSet |-> LowerAlpha[CHOOSE i \in Range26 : UpperAlpha[i] = c]]
UpperOf == [c \in LowerSet |-> UpperAlpha[CHOOSE i \in Range26 : LowerAlpha[i] = c]]

IsUpper(c) == c \in UpperSet
IsLower(c) == c \in LowerSet
IsDigit(c) == c \in DigitSet
\* \s of the regular expressions, and the characters trim() removes
IsSpace(c) == c \in SpaceSet
\* \w of the regular expressions
IsWord(c) == c \in WordSet

LowerChar(c) == IF c \in UpperSet THEN LowerOf[c] ELSE c

\* String.prototype.toLowerCase
ToLowerCase(s) == [i \in 1..Len(s) |-> LowerChar(s[i])]

RECURSIVE FirstNonSpace(_, _)
FirstNonSpace(s, i) ==
  IF i > Len(s) \/ ~IsSpace(s[i]) THEN i ELSE FirstNonSpace(s, i + 1)
RECURSIVE LastNonSpace(_, _)
LastNonSpace(s, i) ==
  IF i < 1 \/ ~IsSpace(s[i]) THEN i ELSE LastNonSpace(s, i - 1)

\* String.prototype.trim
Trim(s) == SubSeq(s, FirstNonSpace(s, 1), LastNonSpace(s, Len(s)))

\* sub occurs in s at index i (1-based)
OccursAt(s, sub, i) ==
  /\ i >= 1
  /\ i + Len(sub) - 1 <= Len(s)
  /\ \A k \in 1..Len(sub) : s[i + k - 1] = sub[k]

\* sub, in lower case, occurs in s at index i when case is ignored
OccursAtIgnoringCase(s, sub, i) ==
  /\ i >= 1
  /\ i + Len(sub) - 1 <= Len(s)
  /\ \A k \in 1..Len(sub) : LowerChar(s[i + k - 1]) = sub[k]

\* String.prototype.includes
Includes(s, sub) == \E i \in 1..(Len(s) + 1) : OccursAt(s, sub, i)

\* String.prototype.startsWith
StartsWith(s, sub) == OccursAt(s, sub, 1)

InClass(c, class) ==
  CASE class = "space" -> c \in SpaceSet
    [] class = "word"  -> c \in WordSet
    [] class = "digit" -> c \in DigitSet

\* index of the last character of the longest run of characters of class
\* "space", "word" or "digit" that starts at i; i-1 when the run is empty
RECURSIVE RunEnd(_, _, _)
RunEnd(s, i, class) ==
  IF i <= Len(s) /\ InClass(s[i], class) THEN RunEnd(s, i + 1, class) ELSE i - 1

DigitValue(c) == (CHOOSE i \in 1..10 : Digits[i] = c) - 1

RECURSIVE DigitsToNat(_)
DigitsToNat(ds) ==
  IF ds = <<>> THEN 0
  ELSE 10 * DigitsToNat(SubSeq(ds, 1, Len(ds) - 1)) + DigitValue(ds[Len(ds)])

\* the decimal text of a natural number, as `${n}` formats it
RECURSIVE NatToDigits(_)
NatToDigits(n) ==
  IF n < 10 THEN <<Digits[n + 1]>>
  ELSE NatToDigits(n \div 10) \o <<Digits[(n % 10) + 1]>>

\* ------------------------------------------------------------ JS values
Undefined == [t |-> "undefined"]
Null == [t |-> "null"]
NaN == [t |-> "nan"]
Num(n) == [t |-> "num", v |-> n]
Str(s) == [t |-> "str", v |-> s]

\* JavaScript truthiness of a value (if (v) ...)
Truthy(v) ==
  CASE v.t = "num" -> v.v # 0
    [] v.t = "str" -> v.v # <<>>
    [] OTHER -> FALSE

\* params[i] with a 0-based index; params may be undefined only where the
\* source guards the access with `&& params`
ParamAt(params, i) ==
  IF i >= 0 /\ i < Len(params) THEN params[i + 1] ELSE Undefined

\* parseInt of a parameter value: a number is kept, a string yields the
\* number written by its leading digits, anything else is NaN
parseInt(v) ==
  CASE v.t = "num" -> v
    [] v.t = "str" ->
         LET s == Trim(v.v)
             e == RunEnd(s, 1, "digit")
         IN IF e >= 1 THEN Num(DigitsToNat(SubSeq(s, 1, e))) ELSE NaN
    [] OTHER -> NaN

\* offset + limit - 1 on JS numbers
RangeTo(offset, limit) ==
  IF offset.t = "num" /\ limit.t = "num" THEN Num(offset.v + limit.v - 1) ELSE NaN

\* ---------------------------------------------------- regular expressions
\* A pattern is a sequence of elements: a literal (matched ignoring case,
\* the /i flag) or a greedy class run \s+, \w+, \d+ (captured when cap).
Lit(w) == [k |-> "lit", v |-> w, cap |-> FALSE]
Spaces == [k |-> "space", cap |-> FALSE]
WordCap == [k |-> "word", cap |-> TRUE]
DigitCap == [k |-> "digit", cap |-> TRUE]

NoMatch == [ok |-> FALSE, caps |-> <<>>, next |-> 0]

RECURSIVE MatchFrom(_, _, _, _)
MatchFrom(s, i, pat, caps) ==
  IF pat = <<>> THEN [ok |-> TRUE, caps |-> caps, next |-> i]
  ELSE LET e == Head(pat) IN
       IF e.k = "lit"
       THEN IF OccursAtIgnoringCase(s, e.v, i)
            THEN MatchFrom(s, i + Len(e.v), Tail(pat), caps)
            ELSE NoMatch
       ELSE LET end == RunEnd(s, i, e.k) IN
            IF end < i THEN NoMatch
            ELSE MatchFrom(s, end + 1, Tail(pat),
                           IF e.cap THEN Append(caps, SubSeq(s, i, end)) ELSE caps)

\* String.prototype.match without the g flag: the leftmost match
Match(s, pat) ==
  LET Starts == {i \in 1..Len(s) : MatchFrom(s, i, pat, <<>>).ok}
  IN IF Starts = {} THEN NoMatch
     ELSE MatchFrom(s, CHOOSE i \in Starts : \A j \in Starts : i <= j, pat, <<>>)

w_from == <<"f","r","o","m">>
w_ilike == <<"i","l","i","k","e">>
w_limit == <<"l","i","m","i","t">>
w_offset == <<"o","f","f","s","e","t">>
w_order == <<"o","r","d","e","r">>
w_by == <<"b","y">>
w_asc == <<"a","s","c">>
w_desc == <<"d","e","s","c">>
w_select == <<"s","e","l","e","c","t">>
w_where == <<"w","h","e","r","e">>
w_order_by == w_order \o <<" ">> \o w_by

\* /from\s+(\w+)/i
tableMatch(text) == Match(text, <<Lit(w_from), Spaces, WordCap>>)
\* /(\w+)\s+ILIKE\s+\$(\d+)/i
ilikeMatch(text) ==
  Match(text, <<WordCap, Spaces, Lit(w_ilike), Spaces, Lit(<<"$">>), DigitCap>>)
\* /limit\s+\$(\d+)/i
limitMatch(text) == Match(text, <<Lit(w_limit), Spaces, Lit(<<"$">>), DigitCap>>)
\* /offset\s+\$(\d+)/i
offsetMatch(text) == Match(text, <<Lit(w_offset), Spaces, Lit(<<"$">>), DigitCap>>)
\* /order\s+by\s+(\w+)(?:\s+(asc|desc))?/i : caps[2] is <<>> when the
\* optional group did not take part in the match
orderMatch(text) ==
  LET m == Match(text, <<Lit(w_order), Spaces, Lit(w_by), Spaces, WordCap>>)
      asc == MatchFrom(text, m.next, <<Spaces, Lit(w_asc)>>, <<>>)
      desc == MatchFrom(text, m.next, <<Spaces, Lit(w_desc)>>, <<>>)
  IN IF ~m.ok THEN NoMatch
     ELSE IF asc.ok THEN [m EXCEPT !.caps = Append(@, w_asc)]
     ELSE IF desc.ok THEN [m EXCEPT !.caps = Append(@, w_desc)]
     ELSE [m EXCEPT !.caps = Append(@, <<>>)]

\* the 0-based parameter index parseInt(m[k]) - 1 of a captured $n
ParamIndex(m, k) == DigitsToNat(m.caps[k]) - 1

\* ------------------------------------------------------------- the backend
\* The REST client is an external collaborator.  A request is the chain of
\* builder calls the source makes before awaiting it; the backend answers
\* with {data, error}.
c_id == <<"i","d">>
c_name == <<"n","a","m","e">>
c_x == <<"x">>
t_t == <<"t">>
t_selections == <<"s","e","l","e","c","t","i","o","n","s">>
t_daos == <<"d","a","o","s">>
c_slug == <<"s","l","u","g">>

From(table) == [op |-> "from", table |-> table]
SelectAll == [op |-> "select", columns |-> <<"*">>]
Select(columns) == [op |-> "select", columns |-> columns]
Ilike(column, value) == [op |-> "ilike", column |-> column, value |-> value]
Order(column, ascending) == [op |-> "order", column |-> column, ascending |-> ascending]
Limit(count) == [op |-> "limit", count |-> count]
Range(from, to) == [op |-> "range", from |-> from, to |-> to]
Rpc(fn, query, parameters) ==
  [op |-> "rpc", fn |-> fn, query |-> query, parameters |-> parameters]

BackendError(m) == [kind |-> "PostgrestError", message |-> <<m>>]
\* new Error(message); the message is a sequence of pieces
Data(rows) == [t |-> "rows", v |-> rows]
Error(parts) == [kind |-> "Error", message |-> parts]

\* rows of table t: distinct x values, names alternating "Ab" and "b"
Row(i) == (c_id :> Num(i)) @@ (c_x :> Num((i * 3) % 7))
          @@ (c_name :> Str(IF i % 2 = 1 THEN <<"A","b">> ELSE <<"b">>))
Rows(k) == [i \in 1..k |-> Row(i)]

\* SQL ILIKE: % matches any run, _ any character, the rest ignoring case
RECURSIVE Like(_, _)
Like(s, p) ==
  IF p = <<>> THEN s = <<>>
  ELSE IF Head(p) = "%" THEN Like(s, Tail(p)) \/ (s # <<>> /\ Like(Tail(s), p))
  ELSE /\ s # <<>>
       /\ (Head(p) = "_" \/ LowerChar(Head(s)) = LowerChar(Head(p)))
       /\ Like(Tail(s), Tail(p))

TextOf(v) == IF v.t = "num" THEN NatToDigits(v.v) ELSE v.v

\* the characters of the model in code-unit order
CodeOrder == <<" ", "-">> \o Digits \o UpperAlpha \o <<"_">> \o LowerAlpha
CodeOf == [c \in {CodeOrder[i] : i \in 1..Len(CodeOrder)} |->
             CHOOSE i \in 1..Len(CodeOrder) : CodeOrder[i] = c]

\* text a sorts before text b, code unit by code unit
RECURSIVE TextLess(_, _)
TextLess(a, b) ==
  IF b = <<>> THEN FALSE
  ELSE IF a = <<>> THEN TRUE
  ELSE IF Head(a) # Head(b) THEN CodeOf[Head(a)] < CodeOf[Head(b)]
  ELSE TextLess(Tail(a), Tail(b))

\* the backend's order on column values: numbers by value, text by code unit
ValueLess(a, b) == IF a.t = "num" THEN a.v < b.v ELSE TextLess(a.v, b.v)

NoWindow == [offset |-> 0, limit |-> -1]

\* the window (offset, row count; -1 for no limit) a chain asks for: limit
\* sets the count, range sets the offset and the count
RECURSIVE Window(_, _)
Window(chain, w) ==
  IF chain = <<>> THEN w
  ELSE LET st == Head(chain) IN
       CASE st.op = "limit" -> Window(Tail(chain), [w EXCEPT !.limit = st.count.v])
         [] st.op = "range" ->
              Window(Tail(chain), [offset |-> st.from.v,
                                   limit |-> st.to.v - st.from.v + 1])
         [] OTHER -> Window(Tail(chain), w)

\* a chain the backend rejects: a column it does not know, ILIKE on a
\* column that is not text, a window that is not a number
ChainError(chain) ==
  IF \E i \in 1..Len(chain) :
        chain[i].op \in {"ilike", "order"} /\ chain[i].column \notin {c_id, c_name, c_x}
  THEN "column does not exist"
  ELSE IF \E i \in 1..Len(chain) : chain[i].op = "ilike" /\ chain[i].column # c_name
  THEN "operator does not exist"
  ELSE IF \E i \in 1..Len(chain) :
        \/ chain[i].op = "limit" /\ chain[i].count.t # "num"
        \/ chain[i].op = "range" /\ (chain[i].from.t # "num" \/ chain[i].to.t # "num")
  THEN "invalid range"
  ELSE ""

RECURSIVE Filtered(_, _)
Filtered(rows, chain) ==
  IF chain = <<>> THEN rows
  ELSE LET st == Head(chain) IN
       CASE st.op = "ilike" ->
              Filtered(SelectSeq(rows,
                         LAMBDA r : Like(r[st.column].v, TextOf(st.value))),
                       Tail(chain))
         [] st.op = "order" ->
              Filtered(SortSeq(rows,
                         LAMBDA a, b : IF st.ascending
                                       THEN ValueLess(a[st.column], b[st.column])
                                       ELSE ValueLess(b[st.column], a[st.column])),
                       Tail(chain))
         [] OTHER -> Filtered(rows, Tail(chain))

Slice(rows, w) ==
  LET last == IF w.limit < 0 \/ w.offset + w.limit > Len(rows)
              THEN Len(rows) ELSE w.offset + w.limit
  IN SubSeq(rows, w.offset + 1, last)

\* the columns a chain selects: every column for '*', else the one named
Projected(rows, chain) ==
  IF \E i \in 1..Len(chain) : chain[i].op = "select" /\ chain[i] # SelectAll
  THEN LET st == chain[CHOOSE i \in 1..Len(chain) : chain[i].op = "select"]
       IN [i \in 1..Len(rows) |-> (st.columns :> rows[i][st.columns])]
  ELSE rows

\* the {data, error} answer of the backend in state db to a request
Respond(db, chain) ==
  IF db.down THEN [data |-> Null, error |-> BackendError("fetch failed")]
  ELSE IF chain[1].op = "rpc"
  THEN IF ~db.rpc.available
       THEN [data |-> Null, error |-> BackendError("function not found")]
       ELSE [data |-> db.rpc.data, error |-> Null]
  ELSE IF chain[1].table \in db.denied
  THEN [data |-> Null, error |-> BackendError("permission denied for table")]
  ELSE IF chain[1].table \notin DOMAIN db.tables
  THEN [data |-> Null, error |-> BackendError("relation does not exist")]
  ELSE IF ChainError(chain) # ""
  THEN [data |-> Null, error |-> BackendError(ChainError(chain))]
  ELSE [data |-> Data(Projected(Slice(Filtered(db.tables[chain[1].table], chain),
                                      Window(chain, NoWindow)),
                                chain)),
        error |-> Null]

\* ------------------------------------------------------ DatabaseManager.query
Arr(seq) == [t |-> "array", v |-> seq]

\* a variant whose rowCount only tells whether there is data
QueryResult_flag(data) ==
  [rows |-> IF data.t = "rows" THEN data.v ELSE <<>>,
   rowCount |-> IF data.t = "rows" /\ data.v # <<>> THEN 1 ELSE 0,
   command |-> "SELECT", oid |-> 0, fields |-> <<>>]

\* result = { rows: data || [], rowCount: data ? data.length : 0, ... }
QueryResult(data) ==
  [rows |-> IF data.t = "rows" THEN data.v ELSE <<>>,
   rowCount |-> IF data.t = "rows" THEN Len(data.v) ELSE 0,
   command |-> "SELECT", oid |-> 0, fields |-> <<>>]

\* if (ilikeMatch && params[parseInt(ilikeMatch[2]) - 1])
ilikeApplies(text, params) ==
  LET m == ilikeMatch(text)
  IN m.ok /\ Truthy(ParamAt(params.v, ParamIndex(m, 2)))

\* the ILIKE branch: the pattern filter capped to one row, or the basic select
ilikeChain(tableName, text, params) ==
  LET m == ilikeMatch(text) IN
  IF ilikeApplies(text, params)
  THEN <<From(tableName), SelectAll,
         Ilike(m.caps[1], ParamAt(params.v, ParamIndex(m, 2))), Limit(Num(1))>>
  ELSE <<From(tableName), SelectAll>>

\* query.order(column, { ascending: direction }) when the text has `order by`
orderSteps(text) ==
  LET m == orderMatch(text) IN
  IF Includes(ToLowerCase(text), w_order_by) /\ m.ok
  THEN <<Order(m.caps[1], m.caps[2] # w_desc)>>
  ELSE <<>>

\* query.limit(limit) when LIMIT $i names a truthy parameter
limitSteps(text, params) ==
  LET m == limitMatch(text) IN
  IF m.ok /\ Truthy(ParamAt(params.v, ParamIndex(m, 1)))
  THEN <<Limit(parseInt(ParamAt(params.v, ParamIndex(m, 1))))>>
  ELSE <<>>

\* query.range(offset, offset + limit - 1) when OFFSET $j names a truthy
\* parameter; limit is 50 when the text has no LIMIT $i
rangeSteps(text, params) ==
  LET lm == limitMatch(text)
      om == offsetMatch(text)
  IN IF om.ok /\ Truthy(ParamAt(params.v, ParamIndex(om, 1)))
     THEN LET offset == parseInt(ParamAt(params.v, ParamIndex(om, 1)))
              limit == IF lm.ok THEN parseInt(ParamAt(params.v, ParamIndex(lm, 1)))
                       ELSE Num(50)
          IN <<Range(offset, RangeTo(offset, limit))>>
     ELSE <<>>

\* a variant that applies the range before the limit
paginatedChain_rangeFirst(tableName, text, params) ==
  <<From(tableName), SelectAll>> \o orderSteps(text)
    \o rangeSteps(text, params) \o limitSteps(text, params)

\* the LIMIT/OFFSET branch
paginatedChain(tableName, text, params) ==
  <<From(tableName), SelectAll>> \o orderSteps(text)
    \o limitSteps(text, params) \o rangeSteps(text, params)

\* text.toLowerCase().includes('select')
isSelect(text) == Includes(ToLowerCase(text), w_select)

\* a variant that calls the procedure without the caller's parameters
rpcRequest_noParameters(text, params) == <<Rpc("execute_custom_query", text, <<>>)>>

\* supabase.rpc('execute_custom_query', { query: text, parameters: params || [] })
rpcRequest(text, params) ==
  <<Rpc("execute_custom_query", text, IF params.t = "array" THEN params.v ELSE <<>>)>>

\* the request query() builds for a text that passed isSelect
requestFor(text, params) ==
  LET lower == ToLowerCase(text)
      tm == tableMatch(text)
  IN IF tm.ok
     THEN IF Includes(lower, w_where) /\ Includes(lower, w_ilike) /\ params.t = "array"
          THEN ilikeChain(tm.caps[1], text, params)
          ELSE IF Includes(lower, w_limit) /\ params.t = "array"
          THEN paginatedChain(tm.caps[1], text, params)
          ELSE <<From(tm.caps[1]), SelectAll>>
     ELSE rpcRequest(text, params)

\* a variant that wraps the backend's error on every path
thrownFor_wrapsAll(chain, error) ==
  Error(<<"Custom query failed: ">> \o error.message)

\* what a failed request throws: the backend's error object on the table
\* paths, a new Error around its message on the remote-procedure path
thrownFor(chain, error) ==
  IF chain[1].op = "rpc"
  THEN Error(<<"Custom query failed: ">> \o error.message)
  ELSE error

\* query(text, params) on connection handle supabase against backend db:
\* the outcome and the requests issued
query(supabase, db, text, params) ==
  IF supabase = "null"
  THEN [outcome |-> [ok |-> FALSE, error |-> Error(<<"Supabase not connected">>)],
        issued |-> <<>>]
  ELSE IF ~isSelect(text)
  THEN [outcome |-> [ok |-> FALSE,
                     error |-> Error(<<"Only SELECT queries are supported with Supabase">>)],
        issued |-> <<>>]
  ELSE LET chain == requestFor(text, params)
           r == Respond(db, chain)
       IN IF r.error # Null
          THEN [outcome |-> [ok |-> FALSE, error |-> thrownFor(chain, r.error)],
                issued |-> <<chain>>]
          ELSE [outcome |-> [ok |-> TRUE, result |-> QueryResult(r.data)],
                issued |-> <<chain>>]

\* --------------------------------------- DatabaseManager.executeCustomQuery
dangerousKeywords ==
  << <<"d","r","o","p">>, <<"d","e","l","e","t","e">>, <<"u","p","d","a","t","e">>,
     <<"i","n","s","e","r","t">>, <<"a","l","t","e","r">>, <<"c","r","e","a","t","e">>,
     <<"t","r","u","n","c","a","t","e">> >>

DefaultLimit == 100

\* a variant that inspects the text without lower-casing it
lowerQuery_caseSensitive(qtext) == Trim(qtext)

\* const lowerQuery = query.toLowerCase().trim()
lowerQuery(qtext) == Trim(ToLowerCase(qtext))

\* the first keyword of dangerousKeywords that lowerQuery includes, <<>> if none
detectedKeyword(qtext) ==
  LET Hits == {i \in 1..Len(dangerousKeywords) :
                 Includes(lowerQuery(qtext), dangerousKeywords[i])}
  IN IF Hits = {} THEN <<>>
     ELSE dangerousKeywords[CHOOSE i \in Hits : \A j \in Hits : i <= j]

\* a variant that accepts a text with `select` anywhere in it
startsWithSelect_anywhere(qtext) == Includes(Trim(ToLowerCase(qtext)), w_select)

\* lowerQuery.startsWith('select')
startsWithSelect(qtext) == StartsWith(lowerQuery(qtext), w_select)

\* a variant that appends the cap to the normalised text
withLimit_normalised(qtext, limit) ==
  IF ~Includes(Trim(ToLowerCase(qtext)), w_limit)
  THEN Trim(ToLowerCase(qtext)) \o <<" ","L","I","M","I","T"," ">> \o NatToDigits(limit)
  ELSE Trim(ToLowerCase(qtext))

\* if (!lowerQuery.includes('limit')) query += ` LIMIT ${limit}`
withLimit(qtext, limit) ==
  IF ~Includes(lowerQuery(qtext), w_limit)
  THEN qtext \o <<" ","L","I","M","I","T"," ">> \o NatToDigits(limit)
  ELSE qtext

\* limit: number = 100
limitOrDefault(limitArg) ==
  IF limitArg.t = "undefined" THEN DefaultLimit ELSE limitArg.v

NoError == [kind |-> "none"]

\* the error the safety checks of executeCustomQuery throw, NoError if none
safetyError(qtext) ==
  IF detectedKeyword(qtext) # <<>>
  THEN Error(<<"Dangerous operation detected: ">> \o detectedKeyword(qtext)
             \o <<". Only SELECT queries are allowed.">>)
  ELSE IF ~startsWithSelect(qtext)
  THEN Error(<<"Only SELECT queries are allowed">>)
  ELSE NoError

\* what executeCustomQuery makes of the outcome of this.query: the rows as
\* content, or the same throw
customOutcome(res) ==
  IF res.ok THEN [ok |-> TRUE, content |-> res.result.rows] ELSE res

\* ------------------------------------- DatabaseManager: tables and DAO names
w_dao_ == <<"d","a","o","_">>
w__tweets == <<"_","t","w","e","e","t","s">>
w_dao == <<"d","a","o">>
w_ai == <<"a","i">>
w_bio == <<"b","i","o">>

\* String.prototype.endsWith
EndsWith(s, sub) == OccursAt(s, sub, Len(s) - Len(sub) + 1)

\* the index of the first occurrence of sub in s at or after i; 0 when none
RECURSIVE IndexFrom(_, _, _)
IndexFrom(s, sub, i) ==
  IF i + Len(sub) - 1 > Len(s) THEN 0
  ELSE IF OccursAt(s, sub, i) THEN i
  ELSE IndexFrom(s, sub, i + 1)

\* String.prototype.replace with a string pattern: the first occurrence only
ReplaceFirst(s, sub, with) ==
  LET i == IndexFrom(s, sub, 1)
  IN IF i = 0 THEN s
     ELSE SubSeq(s, 1, i - 1) \o with \o SubSeq(s, i + Len(sub), Len(s))

\* replace(/sub/gi, with): every occurrence, left to right, ignoring case
RECURSIVE ReplaceAllIgnoringCase(_, _, _)
ReplaceAllIgnoringCase(s, sub, with) ==
  IF s = <<>> THEN <<>>
  ELSE IF OccursAtIgnoringCase(s, sub, 1)
  THEN with \o ReplaceAllIgnoringCase(SubSeq(s, Len(sub) + 1, Len(s)), sub, with)
  ELSE <<Head(s)>> \o ReplaceAllIgnoringCase(Tail(s), sub, with)

\* split(/(?=[A-Z])/).join(' '): a space before every capital but the first
\* character
RECURSIVE SpaceBeforeCapitals(_, _)
SpaceBeforeCapitals(s, i) ==
  IF i > Len(s) THEN <<>>
  ELSE (IF i > 1 /\ IsUpper(s[i]) THEN <<" ", s[i]>> ELSE <<s[i]>>)
       \o SpaceBeforeCapitals(s, i + 1)

\* replace(/\b\w/g, l => l.toUpperCase())
CapitalizeWords(s) ==
  [i \in 1..Len(s) |->
     IF IsWord(s[i]) /\ (i = 1 \/ ~IsWord(s[i - 1]))
     THEN (IF s[i] \in LowerSet THEN UpperOf[s[i]] ELSE s[i])
     ELSE s[i]]

\* replace(/\s+/g, '-')
RECURSIVE HyphenateSpaces(_, _)
HyphenateSpaces(s, i) ==
  IF i > Len(s) THEN <<>>
  ELSE IF IsSpace(s[i])
  THEN (IF i > 1 /\ IsSpace(s[i - 1]) THEN <<>> ELSE <<"-">>)
       \o HyphenateSpaces(s, i + 1)
  ELSE <<s[i]>> \o HyphenateSpaces(s, i + 1)

\* replace(/[^a-z0-9]/g, '')
OnlyLowerAlnum(s) == SelectSeq(s, LAMBDA c : IsLower(c) \/ IsDigit(c))

\* getDaoTableName(daoName, 'tweets')
getDaoTableName(daoName) ==
  w_dao_ \o OnlyLowerAlnum(ToLowerCase(daoName)) \o w__tweets

\* formatDAOName(daoName)
formatDAOName(daoName) ==
  Trim(ReplaceAllIgnoringCase(
         ReplaceAllIgnoringCase(
           ReplaceAllIgnoringCase(
             CapitalizeWords(SpaceBeforeCapitals(daoName, 1)),
             w_dao, <<"D","A","O">>),
           w_ai, <<"A","I">>),
         w_bio, <<"B","i","o">>))

\* a variant that strips only the prefix
extractedName_prefixOnly(tableName) == ReplaceFirst(tableName, w_dao_, <<>>)

\* tableName.replace('dao_', '').replace('_tweets', '')
extractedName(tableName) ==
  ReplaceFirst(ReplaceFirst(tableName, w_dao_, <<>>), w__tweets, <<>>)

\* getDAODisplayName(daoNameOrSlug)
getDAODisplayName(daoNameOrSlug) ==
  IF StartsWith(daoNameOrSlug, w_dao_) /\ EndsWith(daoNameOrSlug, w__tweets)
  THEN formatDAOName(extractedName(daoNameOrSlug))
  ELSE formatDAOName(daoNameOrSlug)

\* the messages of tableExists' first branch: they include 'permission
\* denied', 'relation' or 'does not exist'
AbsentOrDenied ==
  {<<"permission denied for table">>, <<"relation does not exist">>,
   <<"column does not exist">>, <<"operator does not exist">>}

\* a variant that takes a table to exist unless the error says otherwise
existsFor_unlessAbsent(error) ==
  IF error # Null
  THEN IF error.message \in AbsentOrDenied THEN FALSE ELSE TRUE
  ELSE TRUE

\* what tableExists returns for the error of the probe's answer
existsFor(error) ==
  IF error # Null
  THEN IF error.message \in AbsentOrDenied THEN FALSE ELSE FALSE
  ELSE TRUE

\* the TypeError of a property read on null
TypeErrorOnNull ==
  [kind |-> "TypeError", message |-> <<"Cannot read properties of null">>]

\* from(tableName).select('*').limit(0)
probe(tableName) == <<From(tableName), SelectAll, Limit(Num(0))>>

\* the try block of tableExists: without a client this.supabase!.from
\* throws a TypeError before any request is made
tryProbe(handle, backend, tableName) ==
  IF handle = "null"
  THEN [thrown |-> TRUE, value |-> FALSE, issued |-> <<>>]
  ELSE [thrown |-> FALSE,
        value |-> existsFor(Respond(backend, probe(tableName)).error),
        issued |-> <<probe(tableName)>>]

\* a variant without the catch block
tableExists_rethrows(handle, backend, tableName) ==
  tryProbe(handle, backend, tableName)

\* tableExists(tableName): the catch block turns an exception into false
tableExists(handle, backend, tableName) ==
  LET r == tryProbe(handle, backend, tableName)
  IN IF r.thrown
     THEN [thrown |-> FALSE, value |-> FALSE, issued |-> r.issued]
     ELSE r

knownDAOTables ==
  <<<<"d","a","o","_","a","t","h","e","n","a","d","a","o","_","t","w","e","e","t","s">>,
    <<"d","a","o","_","b","e","e","a","r","d","a","i","_","t","w","e","e","t","s">>,
    <<"d","a","o","_","b","i","o","p","r","o","t","o","c","o","l","_","t","w","e","e","t","s">>,
    <<"d","a","o","_","c","e","r","e","b","r","u","m","d","a","o","_","t","w","e","e","t","s">>,
    <<"d","a","o","_","c","r","y","o","d","a","o","_","t","w","e","e","t","s">>,
    <<"d","a","o","_","c","u","r","e","t","o","p","i","a","d","a","o","_","t","w","e","e","t","s">>,
    <<"d","a","o","_","d","1","c","k","d","a","o","_","t","w","e","e","t","s">>,
    <<"d","a","o","_","d","a","l","y","a","d","a","o","_","t","w","e","e","t","s">>,
    <<"d","a","o","_","d","o","g","y","e","a","r","s","d","a","o","_","t","w","e","e","t","s">>,
    <<"d","a","o","_","f","a","t","d","a","o","_","t","w","e","e","t","s">>,
    <<"d","a","o","_","g","i","n","g","e","r","s","c","i","e","n","c","e","d","a","o","_","t","w","e","e","t","s">>,
    <<"d","a","o","_","g","l","i","o","d","a","o","_","t","w","e","e","t","s">>,
    <<"d","a","o","_","h","a","i","r","d","a","o","_","t","w","e","e","t","s">>,
    <<"d","a","o","_","h","e","m","p","y","d","o","t","s","c","i","e","n","c","e","_","t","w","e","e","t","s">>,
    <<"d","a","o","_","k","i","d","n","e","y","d","a","o","_","t","w","e","e","t","s">>,
    <<"d","a","o","_","l","o","n","g","c","o","v","i","d","l","a","b","s","d","a","o","_","t","w","e","e","t","s">>,
    <<"d","a","o","_","m","e","s","o","r","e","e","f","d","a","o","_","t","w","e","e","t","s">>,
    <<"d","a","o","_","m","i","c","r","o","b","i","o","m","e","d","a","o","_","t","w","e","e","t","s">>,
    <<"d","a","o","_","m","i","c","r","o","d","a","o","_","t","w","e","e","t","s">>,
    <<"d","a","o","_","m","o","l","e","c","u","l","e","d","a","o","_","t","w","e","e","t","s">>,
    <<"d","a","o","_","m","y","c","o","d","a","o","_","t","w","e","e","t","s">>,
    <<"d","a","o","_","n","o","o","t","r","o","p","i","c","s","d","a","o","_","t","w","e","e","t","s">>,
    <<"d","a","o","_","p","s","y","d","a","o","_","t","w","e","e","t","s">>,
    <<"d","a","o","_","q","u","a","n","t","u","m","b","i","o","d","a","o","_","t","w","e","e","t","s">>,
    <<"d","a","o","_","r","e","f","l","e","x","d","a","o","_","t","w","e","e","t","s">>,
    <<"d","a","o","_","s","l","e","e","p","d","a","o","_","t","w","e","e","t","s">>,
    <<"d","a","o","_","s","p","e","c","t","r","u","t","h","a","i","d","a","o","_","t","w","e","e","t","s">>,
    <<"d","a","o","_","s","p","i","n","e","d","a","o","_","t","w","e","e","t","s">>,
    <<"d","a","o","_","s","t","e","m","d","a","o","_","t","w","e","e","t","s">>,
    <<"d","a","o","_","v","a","l","l","e","y","d","a","o","_","t","w","e","e","t","s">>,
    <<"d","a","o","_","v","i","t","a","d","a","o","_","t","w","e","e","t","s">>,
    <<"d","a","o","_","v","i","t","a","f","a","s","t","b","i","o","_","t","w","e","e","t","s">>,
    <<"d","a","o","_","v","i","t","a","r","n","a","b","i","o","_","t","w","e","e","t","s">>>>

\* [...new Set(names)]: the first occurrence of each value, in order
RECURSIVE Unique(_)
Unique(names) ==
  IF names = <<>> THEN <<>>
  ELSE LET before == Unique(SubSeq(names, 1, Len(names) - 1))
           last == names[Len(names)]
       IN IF \E i \in 1..Len(before) : before[i] = last
          THEN before ELSE Append(before, last)

\* from('daos').select('name')
registryNames == <<From(t_daos), Select(c_name)>>

\* getDAONames(): the registry's names when the registry's probe succeeds
\* and its read does not fail, then the name of every known table whose
\* probe succeeds, without exact duplicates
getDAONames(handle, backend) ==
  LET daosTableExists == tableExists(handle, backend, t_daos).value
      answer == Respond(backend, registryNames)
      fromRegistry ==
        IF daosTableExists /\ answer.error = Null
        THEN [i \in 1..Len(answer.data.v) |-> answer.data.v[i][c_name].v]
        ELSE <<>>
      found == SelectSeq(knownDAOTables,
                         LAMBDA t : tableExists(handle, backend, t).value)
      fromTables == [i \in 1..Len(found) |-> extractedName(found[i])]
      probes == [i \in 1..Len(knownDAOTables) |->
                   tableExists(handle, backend, knownDAOTables[i]).issued]
      RECURSIVE Flat(_)
      Flat(ss) == IF ss = <<>> THEN <<>> ELSE Head(ss) \o Flat(Tail(ss))
  IN [value |-> Unique(fromRegistry \o fromTables),
      issued |-> tableExists(handle, backend, t_daos).issued
                 \o (IF daosTableExists THEN <<registryNames>> ELSE <<>>)
                 \o Flat(probes)]


\* ------------------------------------------------------- DaoManager.listDAOs
DefaultListLimit == 50

\* the text of the registry query, white space included
daosQuery ==
  <<"\n"," "," "," "," "," "," "," "," "," "," ","S","E","L","E","C","T"," ",
    "\n"," "," "," "," "," "," "," "," "," "," "," "," ","n","a","m","e",",",
    "\n"," "," "," "," "," "," "," "," "," "," "," "," ","s","l","u","g",",",
    "\n"," "," "," "," "," "," "," "," "," "," "," "," ","t","w","i","t","t",
    "e","r","_","h","a","n","d","l","e",",","\n"," "," "," "," "," "," "," ",
    " "," "," "," "," ","d","e","s","c","r","i","p","t","i","o","n",",","\n",
    " "," "," "," "," "," "," "," "," "," "," "," ","w","e","b","s","i","t",
    "e","_","u","r","l",",","\n"," "," "," "," "," "," "," "," "," "," "," ",
    " ","c","r","e","a","t","e","d","_","a","t",",","\n"," "," "," "," "," ",
    " "," "," "," "," "," "," ","u","p","d","a","t","e","d","_","a","t","\n",
    " "," "," "," "," "," "," "," "," "," ","F","R","O","M"," ","d","a","o",
    "s","\n"," "," "," "," "," "," "," "," "," "," ","O","R","D","E","R"," ",
    "B","Y"," ","n","a","m","e","\n"," "," "," "," "," "," "," "," "," "," ",
    "L","I","M","I","T"," ","$","1"," ","O","F","F","S","E","T"," ","$","2",
    "\n"," "," "," "," "," "," "," "," ">>

\* the primary order of String.prototype.localeCompare: white space, then
\* punctuation, then digits, then letters whatever their case
CollationOrder == <<" ", "\n", "\t", "_", "-">> \o Digits \o LowerAlpha
CollationOf == [c \in {CollationOrder[i] : i \in 1..Len(CollationOrder)} |->
                  CHOOSE i \in 1..Len(CollationOrder) : CollationOrder[i] = c]

RECURSIVE PrimaryLess(_, _)
PrimaryLess(a, b) ==
  IF b = <<>> THEN FALSE
  ELSE IF a = <<>> THEN TRUE
  ELSE IF LowerChar(Head(a)) # LowerChar(Head(b))
  THEN CollationOf[LowerChar(Head(a))] < CollationOf[LowerChar(Head(b))]
  ELSE PrimaryLess(Tail(a), Tail(b))

\* a and b differ in case only: the one with the lower-case letter at the
\* first difference comes first
RECURSIVE CaseLess(_, _)
CaseLess(a, b) ==
  IF a = <<>> \/ b = <<>> THEN FALSE
  ELSE IF Head(a) # Head(b) THEN IsLower(Head(a))
  ELSE CaseLess(Tail(a), Tail(b))

\* a.localeCompare(b) < 0
LocaleLess(a, b) ==
  \/ PrimaryLess(a, b)
  \/ ToLowerCase(a) = ToLowerCase(b) /\ CaseLess(a, b)

\* Array.prototype.sort((a, b) => a.name.localeCompare(b.name)): stable
RECURSIVE InsertByName(_, _)
InsertByName(sorted, e) ==
  IF sorted = <<>> THEN <<e>>
  ELSE IF LocaleLess(e.name, Head(sorted).name) THEN <<e>> \o sorted
  ELSE <<Head(sorted)>> \o InsertByName(Tail(sorted), e)

RECURSIVE SortByName(_)
SortByName(list) ==
  IF list = <<>> THEN <<>>
  ELSE InsertByName(SortByName(SubSeq(list, 1, Len(list) - 1)), list[Len(list)])

\* one entry of the list: the fields computed from the name and from the
\* registry row of the page with that name, if any
daoEntry(daoName, registeredDAOs) ==
  LET matching == SelectSeq(registeredDAOs,
                            LAMBDA d : ToLowerCase(d[c_name].v) = ToLowerCase(daoName))
  IN [name |-> getDAODisplayName(daoName),
      slug |-> IF matching # <<>> /\ Truthy(matching[1][c_slug])
               THEN matching[1][c_slug].v
               ELSE HyphenateSpaces(ToLowerCase(daoName), 1),
      internal_name |-> daoName,
      is_registered |-> matching # <<>>,
      has_tweet_data |-> TRUE,
      tweet_table |-> getDaoTableName(daoName)]

\* the list built from the page of registry rows and the available names
daoList(registeredDAOs, availableDAOs) ==
  LET allDAOs ==
        Unique([i \in 1..Len(registeredDAOs) |->
                  ToLowerCase(registeredDAOs[i][c_name].v)]
               \o [i \in 1..Len(availableDAOs) |-> ToLowerCase(availableDAOs[i])])
  IN SortByName([i \in 1..Len(allDAOs) |-> daoEntry(allDAOs[i], registeredDAOs)])

\* limit: number = 50, offset: number = 0
listLimit(limitArg) == IF limitArg = Undefined THEN Num(DefaultListLimit) ELSE limitArg
listOffset(offsetArg) == IF offsetArg = Undefined THEN Num(0) ELSE offsetArg


\* ------------------------------------------------------------------ inputs
UpperChar(c) == IF c \in LowerSet THEN UpperOf[c] ELSE c
Up(s) == [i \in 1..Len(s) |-> UpperChar(s[i])]

RECURSIVE Join(_)
Join(tokens) ==
  IF Len(tokens) = 1 THEN tokens[1]
  ELSE tokens[1] \o <<" ">> \o Join(Tail(tokens))

star == <<"*">>
P(n) == <<"$">> \o NatToDigits(n)
SelectFromT == <<Up(w_select), star, Up(w_from), t_t>>
OrderByX == <<Up(w_order), Up(w_by), c_x>>

q_plain == Join(<<w_select, star, w_from, t_t>>)
q_plainUpper == Join(SelectFromT)
q_limitLiteral == Join(<<w_select, star, w_from, t_t, w_limit, <<"1">>>>)
q_limitMixed == Join(<<<<"S","e","l","e","c","t">>, star, <<"F","r","o","m">>, t_t,
                       Up(w_limit), <<"1">>>>)
q_padded == <<" ", " ">> \o q_plain \o <<"\n">>
q_drop == Join(<<dangerousKeywords[1], <<"t","a","b","l","e">>, t_t>>)
q_delete == Join(<<w_select, <<"D","e","L","e","T","e">>, w_from, t_t>>)
q_updated == Join(<<w_select, dangerousKeywords[3] \o <<"d","_","a","t">>, w_from, t_t>>)
q_insert == Join(<<Up(dangerousKeywords[4]), <<"i","n","t","o">>, t_t>>)
q_alter == Join(<<w_select, dangerousKeywords[5], w_from, t_t>>)
q_create == Join(<<<<"C","r","e","a","t","e">>, <<"t","a","b","l","e">>, t_t>>)
q_truncate == q_plain \o <<";", " ">> \o Up(dangerousKeywords[7]) \o <<" ">> \o t_t
q_show == <<"s","h","o","w"," ","t","a","b","l","e","s">>
q_explain == <<"e","x","p","l","a","i","n"," ">> \o q_plain
q_deleteSelections == Join(<<dangerousKeywords[2], w_from, t_selections>>)
q_noFrom == Join(<<w_select, <<"1">>>>)
q_fromAtEnd == Join(<<Up(w_select), star, Up(w_from)>>) \o <<" ">>
q_missing == Join(<<w_select, star, w_from, <<"m","i","s","s","i","n","g">>>>)
q_ilike(n) == Join(SelectFromT \o <<Up(w_where), c_name, Up(w_ilike), P(n)>>)
q_ilikePaged == Join(SelectFromT \o <<Up(w_where), c_name, Up(w_ilike), P(1)>>
                     \o OrderByX \o <<Up(w_limit), P(2)>>)
q_ilikeTwo == Join(<<w_select, star, w_from, t_t, w_where, c_x, w_ilike, P(2),
                     <<"O","R">>, c_name, w_ilike, P(1)>>)
q_page(dir, i, j) ==
  Join(SelectFromT \o OrderByX \o dir \o <<Up(w_limit), P(i), Up(w_offset), P(j)>>)
q_limitOnly == Join(SelectFromT \o <<Up(w_limit), P(1)>>)
\* a pattern written in the text, not bound to a parameter, and LIMIT $1
q_ilikeLiteralPaged ==
  Join(SelectFromT \o <<Up(w_where), c_name, Up(w_ilike),
                         <<"'","%","b","%","'">>, Up(w_limit), P(1)>>)

Texts ==
  { q_plain, q_plainUpper, q_limitLiteral, q_limitMixed, q_padded,
    q_drop, q_delete, q_updated, q_insert, q_alter, q_create, q_truncate,
    q_show, q_explain, q_deleteSelections, q_noFrom, q_fromAtEnd, q_missing,
    q_ilike(1), q_ilike(2), q_ilikePaged, q_ilikeTwo,
    q_page(<<Up(w_desc)>>, 1, 2), q_page(<<>>, 1, 2), q_page(<<w_asc>>, 2, 1),
    q_page(<<w_desc>>, 1, 3), q_limitOnly, q_ilikeLiteralPaged }

v_pattern == <<"%","b","%">>
ParamValues == {Num(n) : n \in 0..MaxNum} \cup {Str(<<>>), Str(v_pattern)}

RECURSIVE SeqsUpTo(_, _)
SeqsUpTo(S, n) ==
  IF n = 0 THEN {<<>>}
  ELSE LET shorter == SeqsUpTo(S, n - 1)
       IN shorter \cup {Append(q, x) : q \in {r \in shorter : Len(r) = n - 1}, x \in S}

\* the params argument of query: omitted, or an array
ParamLists == {Undefined} \cup {Arr(q) : q \in SeqsUpTo(ParamValues, MaxParams)}

\* the limit argument of executeCustomQuery: omitted, or a cap
Caps == {Undefined} \cup {Num(n) : n \in 1..MaxCap}

Tables(k) == (t_t :> Rows(k)) @@ (t_selections :> Rows(1))

\* backend states: reachable with k rows in t and the remote procedure
\* present (answering rows or null) or absent, or unreachable
DBs ==
  {[down |-> FALSE, denied |-> {}, tables |-> Tables(k), rpc |-> r] :
     k \in 0..MaxRows,
     r \in {[available |-> TRUE, data |-> Data(Rows(1))],
            [available |-> TRUE, data |-> Null],
            [available |-> FALSE, data |-> Null]}}
  \cup {[down |-> TRUE, denied |-> {}, tables |-> Tables(MaxRows),
         rpc |-> [available |-> TRUE, data |-> Null]]}

\* backend states for the catalog: the registry absent, or holding up to
\* MaxRegistry rows; each of two candidate tables present or not
MaxRegistry == 2    \* rows of the registry table
MaxList == 2        \* limits passed to listDAOs are 1..MaxList
MaxSkip == 1        \* offsets passed to listDAOs are 0..MaxSkip

n_VitaDAO == <<"V","i","t","a","D","A","O">>
n_athenadao == <<"a","t","h","e","n","a","d","a","o">>
n_NewDAO == <<"N","e","w","D","A","O">>
t_vitadao == <<"d","a","o","_","v","i","t","a","d","a","o","_","t","w","e","e","t","s">>
t_athenadao ==
  <<"d","a","o","_","a","t","h","e","n","a","d","a","o","_","t","w","e","e","t","s">>
t_none == <<"n","o","n","e">>

\* a registry row; the row of NewDAO has an empty slug
RegistryRow(name) ==
  (c_name :> Str(name))
  @@ (c_slug :> Str(IF name = n_NewDAO THEN <<>> ELSE ToLowerCase(name)))

Registries ==
  {[i \in 1..Len(q) |-> RegistryRow(q[i])] :
     q \in {r \in SeqsUpTo({n_VitaDAO, n_athenadao, n_NewDAO}, MaxRegistry) :
              \A i, j \in 1..Len(r) : i # j => r[i] # r[j]}}

CatalogTables(registry, candidates) ==
  [t \in {t_t} \cup registry \cup candidates |->
     IF t = t_t THEN Rows(1) ELSE <<>>]

NoRpc == [available |-> FALSE, data |-> Null]

CatalogDBs ==
  {[down |-> FALSE, denied |-> {}, rpc |-> NoRpc,
    tables |-> CatalogTables({}, candidates)] :
     candidates \in SUBSET {t_vitadao, t_athenadao}}
  \cup {[down |-> FALSE, denied |-> {}, rpc |-> NoRpc,
         tables |-> (t_daos :> rows) @@ CatalogTables({}, candidates)] :
          rows \in Registries, candidates \in SUBSET {t_vitadao, t_athenadao}}
  \cup {[down |-> FALSE, denied |-> d, rpc |-> NoRpc,
         tables |-> (t_daos :> <<RegistryRow(n_VitaDAO)>>)
                    @@ CatalogTables({}, {t_vitadao, t_athenadao})] :
          d \in {{t_daos}, {t_vitadao}}}
  \cup {[down |-> TRUE, denied |-> {}, rpc |-> NoRpc,
         tables |-> (t_daos :> <<RegistryRow(n_VitaDAO)>>)
                    @@ CatalogTables({}, {t_vitadao})]}

ProbedTables == {t_daos, t_t, t_vitadao, t_none}
ListLimits == {Undefined} \cup {Num(n) : n \in 1..MaxList}
ListOffsets == {Undefined} \cup {Num(n) : n \in 0..MaxSkip}


\* ------------------------------------------------------------- the machine
VARIABLES
  supabase,    \* the connection handle: "null" or "client"
  db,          \* the backend's state
  lifecycle,   \* what the last connect/disconnect did to the manager
  pc,          \* "idle", or "returned" while the caller holds an outcome
  call,        \* the operation last called and its arguments
  outcome,     \* what it returned or threw
  queried,     \* the (text, params) executeCustomQuery handed to this.query
  issued,      \* the requests it sent to the backend
  slots,       \* per concurrent caller: its call in flight, or its outcome
  epoch,       \* how many connect and disconnect calls have run
  config,      \* AuthManager.config: enableAuth, teamApiKey
  transports,  \* the session ids the HTTP server holds a transport for
  rateLimitStore, \* per client, the times of its admitted requests
  now,         \* Date.now(), in milliseconds
  http,        \* the HTTP request last served and how it ended
  seen,        \* history: the last verdict tableExists returned, and for which table
  listing,     \* the getDAONames call in flight: its position and the names so far
  activeSessions, \* AuthManager.activeSessions: session id -> userId, expiresAt
  retired,     \* history: the session ids validateSession removed as expired
  admitted     \* history: per client, the times of the requests passed on

vars == <<supabase, db, lifecycle, pc, call, outcome, queried, issued,
          slots, epoch, config, transports, rateLimitStore, now, http,
          seen, listing, activeSessions, retired, admitted>>

core == <<supabase, db, lifecycle, pc, call, outcome, queried, issued>>
web == <<config, transports, rateLimitStore, now, http>>

aux == <<seen, listing, activeSessions, retired, admitted>>

\* the clients (req.ip) the rate limiter keeps times for, and those of them
\* that send the HTTP server's routed requests
RateClients == {"ip1", "ip2"}
Clients == {"ip1"}
NoHttp == [served |-> FALSE]

\* the HTTP server before its first request, with configuration cfg
WebInit(cfg) ==
  /\ config = cfg
  /\ transports = {}
  /\ rateLimitStore = [c \in RateClients |-> <<>>]
  /\ now = 0
  /\ http = NoHttp

\* the configuration when the environment sets nothing
DefaultConfig == [enableAuth |-> FALSE, teamApiKey |-> <<>>]

\* the callers that may have a call in flight at the same time
Callers == {"c1", "c2"}
Idle == [at |-> "idle"]
conc == <<slots, epoch>>

\* no verdict returned yet, no listing in flight, no session, no request
NoVerdict == [asked |-> FALSE]
NotListing == [at |-> "idle"]
AuxInit ==
  /\ seen = NoVerdict
  /\ listing = NotListing
  /\ activeSessions = [id \in {} |-> Null]
  /\ retired = {}
  /\ admitted = [c \in RateClients |-> <<>>]

NoCall == [op |-> "none"]
NoOutcome == [ok |-> TRUE]

Init ==
  /\ supabase = "null"
  /\ db \in DBs
  /\ lifecycle = "constructed"
  /\ pc = "idle"
  /\ call = NoCall
  /\ outcome = NoOutcome
  /\ queried = <<>>
  /\ issued = <<>>
  /\ slots = [k \in Callers |-> Idle]
  /\ epoch = 0
  /\ WebInit(DefaultConfig)
  /\ AuxInit

\* connect(): returns early when a client exists; otherwise creates the
\* client and then runs the health check, which may throw
connect(health) ==
  /\ pc = "idle"
  /\ pc' = "returned"
  /\ call' = [op |-> "connect", health |-> health]
  /\ queried' = <<>>
  /\ issued' = <<>>
  /\ UNCHANGED db
  /\ IF supabase # "null"
     THEN /\ outcome' = [ok |-> TRUE]
          /\ UNCHANGED <<supabase, lifecycle>>
     ELSE /\ supabase' = "client"
          /\ outcome' =
               CASE health = "invalidKey" ->
                      [ok |-> FALSE, error |-> Error(<<"Invalid Supabase API key">>)]
                 [] health = "throws" ->
                      [ok |-> FALSE, error |-> Error(<<"fetch failed">>)]
                 [] OTHER -> [ok |-> TRUE]
          /\ lifecycle' = IF health \in {"invalidKey", "throws"}
                          THEN "connectFailed" ELSE "connected"

\* a variant of disconnect that leaves the handle in place
disconnect_keepsHandle ==
  /\ pc = "idle"
  /\ pc' = "returned"
  /\ lifecycle' = "disconnected"
  /\ call' = [op |-> "disconnect"]
  /\ outcome' = [ok |-> TRUE]
  /\ queried' = <<>>
  /\ issued' = <<>>
  /\ UNCHANGED <<supabase, db>>

\* disconnect(): drops the handle
disconnect ==
  /\ pc = "idle"
  /\ pc' = "returned"
  /\ supabase' = "null"
  /\ lifecycle' = "disconnected"
  /\ call' = [op |-> "disconnect"]
  /\ outcome' = [ok |-> TRUE]
  /\ queried' = <<>>
  /\ issued' = <<>>
  /\ UNCHANGED db

Query(text, params) ==
  /\ pc = "idle"
  /\ pc' = "returned"
  /\ call' = [op |-> "query", text |-> text, params |-> params]
  /\ \E r \in {query(supabase, db, text, params)} :
        /\ outcome' = r.outcome
        /\ issued' = r.issued
  /\ queried' = <<>>
  /\ UNCHANGED <<supabase, db, lifecycle>>

\* executeCustomQuery(query, limit): the safety checks, the limit, then
\* this.query(query) without parameters
ExecuteCustomQuery(text, limitArg) ==
  /\ pc = "idle"
  /\ pc' = "returned"
  /\ call' = [op |-> "executeCustomQuery", text |-> text, limit |-> limitArg]
  /\ \E err \in {safetyError(text)} :
       IF err # NoError
       THEN /\ outcome' = [ok |-> FALSE, error |-> err]
            /\ queried' = <<>>
            /\ issued' = <<>>
       ELSE \E q \in {withLimit(text, limitOrDefault(limitArg))} :
              \E r \in {query(supabase, db, q, Undefined)} :
                /\ outcome' = customOutcome(r.outcome)
                /\ queried' = <<[text |-> q, params |-> Undefined]>>
                /\ issued' = r.issued
  /\ UNCHANGED <<supabase, db, lifecycle>>

\* a variant that answers from the last verdict when it is for the same table
TableExists_cached(tableName) ==
  /\ pc = "idle"
  /\ pc' = "returned"
  /\ call' = [op |-> "tableExists", table |-> tableName]
  /\ IF seen.asked /\ seen.table = tableName
     THEN /\ outcome' = [ok |-> TRUE, value |-> seen.value]
          /\ issued' = <<>>
     ELSE \E r \in {tableExists(supabase, db, tableName)} :
            /\ outcome' = [ok |-> TRUE, value |-> r.value]
            /\ issued' = r.issued
  /\ queried' = <<>>
  /\ UNCHANGED <<supabase, db, lifecycle>>

\* tableExists(tableName)
TableExists(tableName) ==
  /\ pc = "idle"
  /\ pc' = "returned"
  /\ call' = [op |-> "tableExists", table |-> tableName]
  /\ \E r \in {tableExists(supabase, db, tableName)} :
        /\ outcome' = IF r.thrown
                      THEN [ok |-> FALSE, error |-> TypeErrorOnNull]
                      ELSE [ok |-> TRUE, value |-> r.value]
        /\ issued' = r.issued
  /\ queried' = <<>>
  /\ UNCHANGED <<supabase, db, lifecycle>>

\* getDAONames()
GetDAONames ==
  /\ pc = "idle"
  /\ pc' = "returned"
  /\ call' = [op |-> "getDAONames"]
  /\ \E r \in {getDAONames(supabase, db)} :
        /\ outcome' = [ok |-> TRUE, value |-> r.value]
        /\ issued' = r.issued
  /\ queried' = <<>>
  /\ UNCHANGED <<supabase, db, lifecycle>>

\* listDAOs(limit, offset): the page of the registry when the registry's
\* probe succeeds, then getDAONames(), then the combined list; a failure of
\* the page's query is rethrown
ListDAOs(limitArg, offsetArg) ==
  /\ pc = "idle"
  /\ pc' = "returned"
  /\ call' = [op |-> "listDAOs", limit |-> limitArg, offset |-> offsetArg]
  /\ \E e \in {tableExists(supabase, db, t_daos)},
        ps \in {Arr(<<listLimit(limitArg), listOffset(offsetArg)>>)} :
       IF e.value
       THEN \E page \in {query(supabase, db, daosQuery, ps)} :
              /\ queried' = <<[text |-> daosQuery, params |-> ps]>>
              /\ IF page.outcome.ok
                 THEN \E names \in {getDAONames(supabase, db)} :
                        /\ outcome' = [ok |-> TRUE,
                                       list |-> daoList(page.outcome.result.rows,
                                                        names.value)]
                        /\ issued' = e.issued \o page.issued \o names.issued
                 ELSE /\ outcome' = page.outcome
                      /\ issued' = e.issued \o page.issued
       ELSE \E names \in {getDAONames(supabase, db)} :
              /\ queried' = <<>>
              /\ outcome' = [ok |-> TRUE, list |-> daoList(<<>>, names.value)]
              /\ issued' = e.issued \o names.issued
  /\ UNCHANGED <<supabase, db, lifecycle>>

\* the caller takes the outcome; the manager is ready for the next call
Return ==
  /\ pc = "returned"
  /\ pc' = "idle"
  /\ call' = NoCall
  /\ outcome' = NoOutcome
  /\ queried' = <<>>
  /\ issued' = <<>>
  /\ UNCHANGED <<supabase, db, lifecycle>>

Next ==
  \/ /\ pc = "idle"
     /\ \E health \in {"ok", "otherError", "invalidKey", "throws"} : connect(health)
     /\ UNCHANGED <<conc, web, aux>>
  \/ disconnect /\ UNCHANGED <<conc, web, aux>>
  \/ /\ pc = "idle"
     /\ \E text \in Texts, params \in ParamLists : Query(text, params)
     /\ UNCHANGED <<conc, web, aux>>
  \/ /\ pc = "idle"
     /\ \E text \in Texts, limitArg \in Caps : ExecuteCustomQuery(text, limitArg)
     /\ UNCHANGED <<conc, web, aux>>
  \/ Return /\ UNCHANGED <<conc, web, aux>>

Spec == Init /\ [][Next]_vars

\* the catalog: the same manager over the catalog's backend states, called
\* for its table probe, its name list and the DAO list
InitCatalog ==
  /\ supabase = "null"
  /\ db \in CatalogDBs
  /\ lifecycle = "constructed"
  /\ pc = "idle"
  /\ call = NoCall
  /\ outcome = NoOutcome
  /\ queried = <<>>
  /\ issued = <<>>
  /\ slots = [k \in Callers |-> Idle]
  /\ epoch = 0
  /\ WebInit(DefaultConfig)
  /\ AuxInit

NextCatalog ==
  \/ /\ pc = "idle"
     /\ \E health \in {"ok", "otherError", "invalidKey", "throws"} : connect(health)
     /\ UNCHANGED <<conc, web, aux>>
  \/ disconnect /\ UNCHANGED <<conc, web, aux>>
  \/ /\ pc = "idle"
     /\ \E tableName \in ProbedTables : TableExists(tableName)
     /\ UNCHANGED <<conc, web, aux>>
  \/ GetDAONames /\ UNCHANGED <<conc, web, aux>>
  \/ /\ pc = "idle"
     /\ \E limitArg \in ListLimits, offsetArg \in ListOffsets :
          ListDAOs(limitArg, offsetArg)
     /\ UNCHANGED <<conc, web, aux>>
  \/ Return /\ UNCHANGED <<conc, web, aux>>

SpecCatalog == InitCatalog /\ [][NextCatalog]_vars

\* ------------------------------------------------- the backend over time
\* The tables of the backend are created and dropped by others between the
\* manager's calls.  seen keeps the last verdict of tableExists and, when
\* the call before it was for the same table, that call's verdict.
LiveDBs ==
  {d \in CatalogDBs :
     /\ ~d.down
     /\ d.denied = {}
     /\ (t_daos \in DOMAIN d.tables) => (d.tables[t_daos] = <<RegistryRow(n_VitaDAO)>>)}

Verdict(tableName, value) ==
  [asked |-> TRUE, table |-> tableName, value |-> value,
   before |-> IF seen.asked /\ seen.table = tableName
              THEN (IF seen.value THEN "true" ELSE "false")
              ELSE "none"]

\* a table is created or dropped in the backend
BackendChange ==
  /\ pc = "idle"
  /\ \E d \in LiveDBs \ {db} : db' = d
  /\ UNCHANGED <<supabase, lifecycle, pc, call, outcome, queried, issued>>

InitLive ==
  /\ supabase = "null"
  /\ db \in LiveDBs
  /\ lifecycle = "constructed"
  /\ pc = "idle"
  /\ call = NoCall
  /\ outcome = NoOutcome
  /\ queried = <<>>
  /\ issued = <<>>
  /\ slots = [k \in Callers |-> Idle]
  /\ epoch = 0
  /\ WebInit(DefaultConfig)
  /\ AuxInit

NextLive ==
  \/ /\ pc = "idle"
     /\ \E health \in {"ok", "throws"} : connect(health)
     /\ UNCHANGED <<conc, web, aux>>
  \/ disconnect /\ UNCHANGED <<conc, web, aux>>
  \/ /\ \E tableName \in ProbedTables :
          /\ TableExists(tableName)
          /\ seen' = Verdict(tableName, outcome'.ok /\ outcome'.value)
     /\ UNCHANGED <<conc, web, listing, activeSessions, retired, admitted>>
  \/ GetDAONames /\ UNCHANGED <<conc, web, aux>>
  \/ BackendChange /\ UNCHANGED <<conc, web, aux>>
  \/ Return /\ UNCHANGED <<conc, web, aux>>

SpecLive == InitLive /\ [][NextLive]_vars

\* ------------------------------------------------- calls in flight together
\* query() and tableExists() are async: each runs up to its await, where
\* its request is in flight, and resumes with the backend's answer.  The
\* callers' steps interleave; connect() and disconnect() run between them.
MaxEpoch == 2       \* connect and disconnect calls in a run

\* the calls the callers make
ConcCalls ==
  {[op |-> "query", text |-> q_plain, params |-> Undefined],
   [op |-> "query", text |-> q_missing, params |-> Undefined],
   [op |-> "query", text |-> q_show, params |-> Undefined],
   [op |-> "query", text |-> q_drop, params |-> Undefined],
   [op |-> "tableExists", table |-> t_t],
   [op |-> "tableExists", table |-> t_none]}

\* backend states: the table full, each state of the remote procedure, or
\* the backend unreachable
ConcDBs == {d \in DBs : d.down \/ Len(d.tables[t_t]) = MaxRows}

\* another caller's request is in flight
OthersAwaiting(k) == \E o \in Callers \ {k} : slots[o].at = "awaiting"

\* caller k's call c has run up to its await with request in flight
Awaiting(k, c, request) ==
  [slots EXCEPT
     ![k] = [at |-> "awaiting", call |-> c, handle |-> supabase, epoch |-> epoch,
             request |-> <<request>>, outcome |-> NoOutcome,
             overlapped |-> OthersAwaiting(k)]]

\* caller k's call c has ended before any await
Ended(k, c, result) ==
  [slots EXCEPT
     ![k] = [at |-> "done", call |-> c, handle |-> supabase, epoch |-> epoch,
             request |-> <<>>, outcome |-> result,
             overlapped |-> OthersAwaiting(k)]]

\* the others in flight have now overlapped with a call of k
Overlapping(s, k) ==
  [o \in Callers |->
     IF o # k /\ s[o].at = "awaiting" THEN [s[o] EXCEPT !.overlapped = TRUE]
     ELSE s[o]]

\* query(): the synchronous part, up to the await of the request
QueryStart(k, c) ==
  /\ slots[k].at = "idle"
  /\ c.op = "query"
  /\ slots' =
       Overlapping(
         IF supabase = "null"
         THEN Ended(k, c, [ok |-> FALSE, error |-> Error(<<"Supabase not connected">>)])
         ELSE IF ~isSelect(c.text)
         THEN Ended(k, c, [ok |-> FALSE,
                           error |-> Error(<<"Only SELECT queries are supported with Supabase">>)])
         ELSE Awaiting(k, c, requestFor(c.text, c.params)),
         k)
  /\ UNCHANGED <<supabase, db, lifecycle, pc, call, outcome, queried, issued, epoch, web, aux>>

\* a variant that hands a caller the answer to the request of another
\* caller in flight
answerFor_shared(backend, s, k) ==
  IF \E o \in Callers \ {k} : s[o].at = "awaiting"
  THEN Respond(backend, s[CHOOSE o \in Callers \ {k} : s[o].at = "awaiting"].request[1])
  ELSE Respond(backend, s[k].request[1])

\* the answer that resumes caller k: the backend's answer to k's request
answerFor(backend, s, k) == Respond(backend, s[k].request[1])

\* a variant that drops the connection handle when the request failed
QueryResume_dropsHandle(k) ==
  /\ slots[k].at = "awaiting"
  /\ slots[k].call.op = "query"
  /\ \E r \in {answerFor(db, slots, k)} :
       /\ slots' =
            [slots EXCEPT
               ![k].at = "done",
               ![k].outcome =
                  IF r.error # Null
                  THEN [ok |-> FALSE, error |-> thrownFor(slots[k].request[1], r.error)]
                  ELSE [ok |-> TRUE, result |-> QueryResult(r.data)]]
       /\ supabase' = IF r.error # Null THEN "null" ELSE supabase
  /\ UNCHANGED <<db, lifecycle, pc, call, outcome, queried, issued, epoch, web, aux>>

\* query(): the continuation after the await
QueryResume(k) ==
  /\ slots[k].at = "awaiting"
  /\ slots[k].call.op = "query"
  /\ \E r \in {answerFor(db, slots, k)} :
       slots' =
         [slots EXCEPT
            ![k].at = "done",
            ![k].outcome =
               IF r.error # Null
               THEN [ok |-> FALSE, error |-> thrownFor(slots[k].request[1], r.error)]
               ELSE [ok |-> TRUE, result |-> QueryResult(r.data)]]
  /\ UNCHANGED <<supabase, db, lifecycle, pc, call, outcome, queried, issued, epoch, web, aux>>

\* tableExists(): up to the await of the probe; without a handle the
\* TypeError is caught and the call ends with false
ExistsStart(k, c) ==
  /\ slots[k].at = "idle"
  /\ c.op = "tableExists"
  /\ slots' =
       Overlapping(
         IF supabase = "null"
         THEN Ended(k, c, [ok |-> TRUE, value |-> FALSE])
         ELSE Awaiting(k, c, probe(c.table)),
         k)
  /\ UNCHANGED <<supabase, db, lifecycle, pc, call, outcome, queried, issued, epoch, web, aux>>

\* tableExists(): the continuation after the await
ExistsResume(k) ==
  /\ slots[k].at = "awaiting"
  /\ slots[k].call.op = "tableExists"
  /\ \E r \in {answerFor(db, slots, k)} :
       slots' = [slots EXCEPT
                   ![k].at = "done",
                   ![k].outcome = [ok |-> TRUE, value |-> existsFor(r.error)]]
  /\ UNCHANGED <<supabase, db, lifecycle, pc, call, outcome, queried, issued, epoch, web, aux>>

\* the caller takes its outcome
Collect(k) ==
  /\ slots[k].at = "done"
  /\ slots' = [slots EXCEPT ![k] = Idle]
  /\ UNCHANGED <<supabase, db, lifecycle, pc, call, outcome, queried, issued, epoch, web, aux>>

InitConc ==
  /\ supabase = "null"
  /\ db \in ConcDBs
  /\ lifecycle = "constructed"
  /\ pc = "idle"
  /\ call = NoCall
  /\ outcome = NoOutcome
  /\ queried = <<>>
  /\ issued = <<>>
  /\ slots = [k \in Callers |-> Idle]
  /\ epoch = 0
  /\ WebInit(DefaultConfig)
  /\ AuxInit

NextConc ==
  \/ /\ pc = "idle"
     /\ epoch < MaxEpoch
     /\ \E health \in {"ok", "throws"} : connect(health)
     /\ epoch' = epoch + 1
     /\ UNCHANGED <<slots, web, aux>>
  \/ /\ epoch < MaxEpoch
     /\ disconnect
     /\ epoch' = epoch + 1
     /\ UNCHANGED <<slots, web, aux>>
  \/ Return /\ UNCHANGED <<conc, web, aux>>
  \/ \E k \in Callers, c \in ConcCalls : QueryStart(k, c)
  \/ \E k \in Callers : QueryResume(k)
  \/ \E k \in Callers, c \in ConcCalls : ExistsStart(k, c)
  \/ \E k \in Callers : ExistsResume(k)
  \/ \E k \in Callers : Collect(k)

SpecConc == InitConc /\ [][NextConc]_vars

\* ------------------------------------------------ getDAONames step by step
\* getDAONames() is suspended at every await: at the probe of the registry
\* (position 0), at the read of the registry's names, and at the probe of
\* each known table (positions 1 .. 33).  connect() and disconnect() run
\* while it is suspended.  The record of the call keeps, as history, whether
\* an attempt found no handle (cut), the names collected until then
\* (before), and whether a later attempt found a handle again (restored).
tableAt(i) == IF i = 0 THEN t_daos ELSE knownDAOTables[i]

Listing(names) ==
  [at |-> "start", i |-> 0, names |-> names, result |-> <<>>,
   cut |-> FALSE, before |-> <<>>, restored |-> FALSE]

\* an attempt without a handle, marked in the history
WithoutHandle(l) ==
  [l EXCEPT !.cut = TRUE, !.before = IF l.cut THEN l.before ELSE l.names]

\* a variant without tableExists' catch block: the TypeError of an attempt
\* without a handle reaches getDAONames' own catch, which returns []
attempt_uncaught(l, handle, i) ==
  IF handle = "null"
  THEN [WithoutHandle(l) EXCEPT !.at = "done", !.i = i, !.result = <<>>]
  ELSE [l EXCEPT !.at = "probing", !.i = i, !.restored = l.cut]

\* tableExists(tableAt(i)) up to its await: the probe is in flight, or
\* without a handle the TypeError is caught and false is on its way
attempt(l, handle, i) ==
  IF handle = "null"
  THEN [WithoutHandle(l) EXCEPT !.at = "skipped", !.i = i]
  ELSE [l EXCEPT !.at = "probing", !.i = i, !.restored = l.cut]

\* after the last known table: [...new Set(daoNames)]
finished(l) == [l EXCEPT !.at = "done", !.result = Unique(l.names)]

\* the loop after the verdict on the known table at l.i
afterCandidate(l, handle, exists) ==
  LET found == IF exists
               THEN [l EXCEPT !.names = Append(@, extractedName(knownDAOTables[l.i]))]
               ELSE l
  IN IF l.i = Len(knownDAOTables) THEN finished(found)
     ELSE attempt(found, handle, l.i + 1)

\* after the verdict on the registry: its names are read when it exists;
\* without a handle the read throws inside the inner try and the loop starts
afterRegistry(l, handle, exists) ==
  IF ~exists THEN attempt(l, handle, 1)
  ELSE IF handle = "null" THEN attempt(WithoutHandle(l), handle, 1)
  ELSE [l EXCEPT !.at = "reading", !.restored = l.cut]

afterVerdict(l, handle, exists) ==
  IF l.i = 0 THEN afterRegistry(l, handle, exists)
  ELSE afterCandidate(l, handle, exists)

\* getDAONames() is called and runs up to its first await
NamesStart ==
  /\ listing.at = "idle"
  /\ listing' = attempt(Listing(<<>>), supabase, 0)
  /\ UNCHANGED <<core, conc, web, seen, activeSessions, retired, admitted>>

\* the probe in flight is answered
ProbeAnswered ==
  /\ listing.at = "probing"
  /\ \E r \in {Respond(db, probe(tableAt(listing.i)))} :
       listing' = afterVerdict(listing, supabase, existsFor(r.error))
  /\ UNCHANGED <<core, conc, web, seen, activeSessions, retired, admitted>>

\* the false of an attempt without a handle arrives
SkipResumed ==
  /\ listing.at = "skipped"
  /\ listing' = afterVerdict(listing, supabase, FALSE)
  /\ UNCHANGED <<core, conc, web, seen, activeSessions, retired, admitted>>

\* the read of the registry's names is answered: an error is logged, the
\* names of the rows are appended
ReadAnswered ==
  /\ listing.at = "reading"
  /\ \E r \in {Respond(db, registryNames)} :
       listing' =
         attempt(IF r.error # Null THEN listing
                 ELSE [listing EXCEPT
                         !.names = @ \o [k \in 1..Len(r.data.v) |-> r.data.v[k][c_name].v]],
                 supabase, 1)
  /\ UNCHANGED <<core, conc, web, seen, activeSessions, retired, admitted>>

\* the caller takes the list
NamesCollect ==
  /\ listing.at = "done"
  /\ listing' = NotListing
  /\ UNCHANGED <<core, conc, web, seen, activeSessions, retired, admitted>>

InitListing ==
  /\ supabase = "null"
  /\ db \in LiveDBs
  /\ lifecycle = "constructed"
  /\ pc = "idle"
  /\ call = NoCall
  /\ outcome = NoOutcome
  /\ queried = <<>>
  /\ issued = <<>>
  /\ slots = [k \in Callers |-> Idle]
  /\ epoch = 0
  /\ WebInit(DefaultConfig)
  /\ AuxInit

NextListing ==
  \/ /\ pc = "idle"
     /\ epoch < MaxEpoch
     /\ \E health \in {"ok", "throws"} : connect(health)
     /\ epoch' = epoch + 1
     /\ UNCHANGED <<slots, web, aux>>
  \/ /\ epoch < MaxEpoch
     /\ disconnect
     /\ epoch' = epoch + 1
     /\ UNCHANGED <<slots, web, aux>>
  \/ Return /\ UNCHANGED <<conc, web, aux>>
  \/ NamesStart
  \/ ProbeAnswered
  \/ SkipResumed
  \/ ReadAnswered
  \/ NamesCollect

SpecListing == InitListing /\ [][NextListing]_vars

\* ------------------------------------------------------------ the HTTP server
\* The Express application of main(): corsMiddleware, express.json() and
\* rateLimitMiddleware run for every request, then the route's handler.  A
\* header is the sequence of the pieces of its value, empty when absent.
WindowMs == 60000
MaxRequests == 100
MaxTicks == 1       \* the clock advances by WindowMs at most MaxTicks times

TeamKey == <<"team-key">>
SessionIds == {"s1", "s2"}

\* authorization?.replace('Bearer ', '')
withoutBearer(authorization) ==
  IF authorization # <<>> /\ Head(authorization) = "Bearer "
  THEN Tail(authorization) ELSE authorization

\* req.headers['x-api-key'] || req.headers['authorization']?.replace('Bearer ', '')
apiKeyOf(req) ==
  IF req.xApiKey # <<>> THEN req.xApiKey ELSE withoutBearer(req.authorization)

\* validateApiKey: next() or 401
validateApiKey(cfg, req) ==
  IF ~cfg.enableAuth THEN "next"
  ELSE IF apiKeyOf(req) = <<>> \/ apiKeyOf(req) # cfg.teamApiKey THEN "401"
  ELSE "next"

\* rateLimitMiddleware: the client's requests of the last WindowMs; 429 at
\* MaxRequests of them, else the request is recorded and passed on
recentRequests(store, clientId, time) ==
  SelectSeq(store[clientId], LAMBDA t : time - t < WindowMs)

\* a variant that turns a client away only above MaxRequests
rateLimited_above(store, clientId, time) ==
  Len(recentRequests(store, clientId, time)) > MaxRequests

rateLimited(store, clientId, time) ==
  Len(recentRequests(store, clientId, time)) >= MaxRequests

recorded(store, clientId, time) ==
  [store EXCEPT ![clientId] = Append(recentRequests(store, clientId, time), time)]

\* the requests clients send
Credentials ==
  {[xApiKey |-> <<>>, authorization |-> <<>>],
   [xApiKey |-> TeamKey, authorization |-> <<>>],
   [xApiKey |-> <<"other-key">>, authorization |-> <<>>],
   [xApiKey |-> <<>>, authorization |-> <<"Bearer ">> \o TeamKey]}

Requests(method, path) ==
  {[method |-> method, path |-> path, ip |-> c, xApiKey |-> k.xApiKey,
    authorization |-> k.authorization, sessionId |-> sid, initialize |-> init] :
     c \in Clients, k \in Credentials, sid \in SessionIds \cup {""},
     init \in IF method = "POST" THEN BOOLEAN ELSE {FALSE}}

\* the request ended with this status before reaching a transport
Answered(req, status, by) ==
  [served |-> TRUE, req |-> req, status |-> status, by |-> by, handled |-> FALSE]

\* the request was given to a transport's handleRequest
Handled(req, session) ==
  [served |-> TRUE, req |-> req, status |-> 0, by |-> "transport",
   handled |-> TRUE, session |-> session]

\* OPTIONS: corsMiddleware answers 200 and calls no next()
Preflight(req) ==
  /\ http = NoHttp
  /\ req.method = "OPTIONS"
  /\ http' = Answered(req, 200, "corsMiddleware")
  /\ UNCHANGED <<config, transports, rateLimitStore, now, core, conc, aux>>

\* a request rateLimitMiddleware turns away
TooManyRequests(req) ==
  /\ http = NoHttp
  /\ req.method # "OPTIONS"
  /\ rateLimited(rateLimitStore, req.ip, now)
  /\ http' = Answered(req, 429, "rateLimitMiddleware")
  /\ UNCHANGED <<config, transports, rateLimitStore, now, core, conc, aux>>

\* history: the times, within the window that ends at time, of the
\* requests of each client that were passed on
InWindow(times, time) == SelectSeq(times, LAMBDA t : time - t < WindowMs)
PassedOn(clientId, time) ==
  [c \in RateClients |->
     IF c = clientId THEN Append(InWindow(admitted[c], time), time)
     ELSE InWindow(admitted[c], time)]
StillInWindow(time) == [c \in RateClients |-> InWindow(admitted[c], time)]

\* the middleware every routed request passes
Admitted(req) ==
  /\ http = NoHttp
  /\ req.method # "OPTIONS"
  /\ ~rateLimited(rateLimitStore, req.ip, now)
  /\ rateLimitStore' = recorded(rateLimitStore, req.ip, now)
  /\ admitted' = PassedOn(req.ip, now)

\* app.post('/mcp'): the session's transport, or a new one, handles the
\* request; the new transport registers its session when the request is
\* an initialize request
PostMcp(req) ==
  /\ Admitted(req)
  /\ IF req.sessionId # "" /\ req.sessionId \in transports
     THEN /\ http' = Handled(req, req.sessionId)
          /\ UNCHANGED transports
     ELSE IF req.initialize /\ transports # SessionIds
     THEN \E sid \in SessionIds \ transports :
            /\ transports' = transports \cup {sid}
            /\ http' = Handled(req, sid)
     ELSE /\ http' = Handled(req, "")
          /\ UNCHANGED transports
  /\ UNCHANGED <<config, now, core, conc, seen, listing, activeSessions, retired>>

\* app.get('/mcp')
GetMcp(req) ==
  /\ Admitted(req)
  /\ http' = IF req.sessionId = "" \/ req.sessionId \notin transports
             THEN Answered(req, 400, "route")
             ELSE Handled(req, req.sessionId)
  /\ UNCHANGED <<config, transports, now, core, conc, seen, listing, activeSessions, retired>>

\* app.delete('/mcp'): the transport closes its session, and onclose
\* removes it from the map
DeleteMcp(req) ==
  /\ Admitted(req)
  /\ IF req.sessionId = "" \/ req.sessionId \notin transports
     THEN /\ http' = Answered(req, 400, "route")
          /\ UNCHANGED transports
     ELSE /\ http' = Handled(req, req.sessionId)
          /\ transports' = transports \ {req.sessionId}
  /\ UNCHANGED <<config, now, core, conc, seen, listing, activeSessions, retired>>

\* app.get('/auth/status', authManager.validateApiKey, ...)
GetAuthStatus(req) ==
  /\ Admitted(req)
  /\ http' = IF validateApiKey(config, req) = "401"
             THEN Answered(req, 401, "validateApiKey")
             ELSE Answered(req, 200, "route")
  /\ UNCHANGED <<config, transports, now, core, conc, seen, listing, activeSessions, retired>>

\* the response is sent; the server waits for the next request
HttpDone ==
  /\ http # NoHttp
  /\ http' = NoHttp
  /\ UNCHANGED <<config, transports, rateLimitStore, now, core, conc, aux>>

\* time passes
Tick ==
  /\ http = NoHttp
  /\ now < MaxTicks * WindowMs
  /\ now' = now + WindowMs
  /\ admitted' = StillInWindow(now')
  /\ UNCHANGED <<config, transports, rateLimitStore, http, core, conc,
                 seen, listing, activeSessions, retired>>

InitHttp ==
  /\ supabase = "null"
  /\ db \in {d \in DBs : d.down}
  /\ lifecycle = "constructed"
  /\ pc = "idle"
  /\ call = NoCall
  /\ outcome = NoOutcome
  /\ queried = <<>>
  /\ issued = <<>>
  /\ slots = [k \in Callers |-> Idle]
  /\ epoch = 0
  /\ \E enabled \in BOOLEAN : WebInit([enableAuth |-> enabled, teamApiKey |-> TeamKey])
  /\ AuxInit

NextHttp ==
  \/ \E req \in Requests("OPTIONS", "/mcp") : Preflight(req)
  \/ \E req \in Requests("POST", "/mcp") \cup Requests("GET", "/auth/status") :
       TooManyRequests(req)
  \/ \E req \in Requests("POST", "/mcp") : PostMcp(req)
  \/ \E req \in Requests("GET", "/mcp") : GetMcp(req)
  \/ \E req \in Requests("DELETE", "/mcp") : DeleteMcp(req)
  \/ \E req \in Requests("GET", "/auth/status") : GetAuthStatus(req)
  \/ HttpDone
  \/ Tick

SpecHttp == InitHttp /\ [][NextHttp]_vars

\* ------------------------------------------------------- the rate limiter
\* rateLimitMiddleware alone, before the route of GET /health, for two
\* clients: one sends as many requests as it likes, the other at most
\* MaxLight; the clock advances by half a window.
MaxHalfTicks == 2   \* the clock advances by WindowMs / 2 at most MaxHalfTicks times
MaxLight == 1       \* requests of the second client that are recorded

HealthRequests ==
  {[method |-> "GET", path |-> "/health", ip |-> c, xApiKey |-> <<>>,
    authorization |-> <<>>, sessionId |-> "", initialize |-> FALSE] :
     c \in RateClients}

\* the second client has sent what it sends
LightDone(req) == req.ip = "ip2" /\ Len(rateLimitStore["ip2"]) >= MaxLight

\* app.get('/health')
GetHealth(req) ==
  /\ Admitted(req)
  /\ http' = Answered(req, 200, "route")
  /\ UNCHANGED <<config, transports, now, core, conc,
                 seen, listing, activeSessions, retired>>

\* half a window passes
HalfTick ==
  /\ http = NoHttp
  /\ now < MaxHalfTicks * (WindowMs \div 2)
  /\ now' = now + (WindowMs \div 2)
  /\ admitted' = StillInWindow(now')
  /\ UNCHANGED <<config, transports, rateLimitStore, http, core, conc,
                 seen, listing, activeSessions, retired>>

InitRate ==
  /\ supabase = "null"
  /\ db \in {d \in DBs : d.down}
  /\ lifecycle = "constructed"
  /\ pc = "idle"
  /\ call = NoCall
  /\ outcome = NoOutcome
  /\ queried = <<>>
  /\ issued = <<>>
  /\ slots = [k \in Callers |-> Idle]
  /\ epoch = 0
  /\ WebInit(DefaultConfig)
  /\ AuxInit

NextRate ==
  \/ \E req \in HealthRequests : ~LightDone(req) /\ TooManyRequests(req)
  \/ \E req \in HealthRequests : ~LightDone(req) /\ GetHealth(req)
  \/ HttpDone
  \/ HalfTick

SpecRate == InitRate /\ [][NextRate]_vars

\* ------------------------------------------------------ AuthManager sessions
\* createSession, validateSession and cleanup over activeSessions.  Time is
\* Date.now() in milliseconds and advances by half a session timeout; a
\* session id is a one-piece text, the empty text is <<>>.  retired keeps,
\* as history, the ids removed as expired and when.
SessionTimeout == 3600
MaxSessions == 2    \* session ids generated in a run
MaxHalves == 4      \* the clock advances by half a timeout at most MaxHalves times

HalfTimeoutMs == (SessionTimeout * 1000) \div 2
AuthIds == {<<n>> : n \in 1..MaxSessions}
u_alice == <<"alice">>
u_mallory == <<"mallory">>
Users == {u_alice, u_mallory}

AuthConfig(enabled) ==
  [enableAuth |-> enabled, teamApiKey |-> TeamKey,
   allowedUsers |-> {u_alice}, sessionTimeout |-> SessionTimeout]

\* validateUser(userId)
validateUser(cfg, userId) ==
  IF ~cfg.enableAuth THEN TRUE ELSE userId \in cfg.allowedUsers

\* new Date(Date.now() + this.config.sessionTimeout * 1000)
expiryFrom(cfg, time) == time + cfg.sessionTimeout * 1000

Without(sessions, sessionId) ==
  [id \in DOMAIN sessions \ {sessionId} |-> sessions[id]]
With(sessions, sessionId, session) ==
  [id \in DOMAIN sessions \cup {sessionId} |->
     IF id = sessionId THEN session ELSE sessions[id]]

\* a variant that extends the session before it looks at its expiry
validateSession_extendsFirst(cfg, sessions, sessionId, time) ==
  IF sessionId = <<>> \/ ~cfg.enableAuth
  THEN [value |-> Null, sessions |-> sessions]
  ELSE IF sessionId \notin DOMAIN sessions
  THEN [value |-> Null, sessions |-> sessions]
  ELSE [value |-> Str(sessions[sessionId].userId),
        sessions |-> [sessions EXCEPT ![sessionId].expiresAt = expiryFrom(cfg, time)]]

\* validateSession(sessionId): what it returns and the sessions it leaves
validateSession(cfg, sessions, sessionId, time) ==
  IF sessionId = <<>> \/ ~cfg.enableAuth
  THEN [value |-> Null, sessions |-> sessions]
  ELSE IF sessionId \notin DOMAIN sessions
  THEN [value |-> Null, sessions |-> sessions]
  ELSE IF sessions[sessionId].expiresAt < time
  THEN [value |-> Null, sessions |-> Without(sessions, sessionId)]
  ELSE [value |-> Str(sessions[sessionId].userId),
        sessions |-> [sessions EXCEPT ![sessionId].expiresAt = expiryFrom(cfg, time)]]

\* the ids removed as expired so far
RetiredIds == {r.id : r \in retired}
Retiring(removed) == retired \cup {[id |-> id, at |-> now] : id \in removed}

\* createSession(userId): throws for a user that is not allowed, else
\* stores a session under a newly generated id
CreateSession(userId) ==
  /\ pc = "idle"
  /\ pc' = "returned"
  /\ call' = [op |-> "createSession", userId |-> userId]
  /\ IF ~validateUser(config, userId)
     THEN /\ outcome' = [ok |-> FALSE,
                         error |-> [kind |-> "Error", message |-> <<"User not authorized">>]]
          /\ UNCHANGED activeSessions
     ELSE \E sessionId \in AuthIds \ (DOMAIN activeSessions \cup RetiredIds) :
            /\ activeSessions' =
                 With(activeSessions, sessionId,
                      [userId |-> userId, expiresAt |-> expiryFrom(config, now),
                       permissions |-> <<"read">>])
            /\ outcome' = [ok |-> TRUE, value |-> Str(sessionId)]
  /\ UNCHANGED <<supabase, db, lifecycle, queried, issued, conc, web,
                 seen, listing, retired, admitted>>

\* validateSession(sessionId)
ValidateSession(sessionId) ==
  /\ pc = "idle"
  /\ pc' = "returned"
  /\ call' = [op |-> "validateSession", sessionId |-> sessionId]
  /\ \E r \in {validateSession(config, activeSessions, sessionId, now)} :
       /\ outcome' = [ok |-> TRUE, value |-> r.value]
       /\ activeSessions' = r.sessions
       /\ retired' = Retiring(DOMAIN activeSessions \ DOMAIN r.sessions)
  /\ UNCHANGED <<supabase, db, lifecycle, queried, issued, conc, web,
                 seen, listing, admitted>>

\* cleanup(): every session whose expiry has passed is removed
Cleanup ==
  /\ pc = "idle"
  /\ pc' = "returned"
  /\ call' = [op |-> "cleanup"]
  /\ outcome' = NoOutcome
  /\ \E expired \in {{id \in DOMAIN activeSessions : activeSessions[id].expiresAt < now}} :
       /\ activeSessions' = [id \in DOMAIN activeSessions \ expired |-> activeSessions[id]]
       /\ retired' = Retiring(expired)
  /\ UNCHANGED <<supabase, db, lifecycle, queried, issued, conc, web,
                 seen, listing, admitted>>

\* time passes between calls
Elapse ==
  /\ pc = "idle"
  /\ now < MaxHalves * HalfTimeoutMs
  /\ now' = now + HalfTimeoutMs
  /\ UNCHANGED <<core, conc, config, transports, rateLimitStore, http, aux>>

InitAuth ==
  /\ supabase = "null"
  /\ db \in {d \in DBs : d.down}
  /\ lifecycle = "constructed"
  /\ pc = "idle"
  /\ call = NoCall
  /\ outcome = NoOutcome
  /\ queried = <<>>
  /\ issued = <<>>
  /\ slots = [k \in Callers |-> Idle]
  /\ epoch = 0
  /\ \E enabled \in BOOLEAN : WebInit(AuthConfig(enabled))
  /\ AuxInit

NextAuth ==
  \/ \E userId \in Users : CreateSession(userId)
  \/ \E sessionId \in AuthIds \cup {<<>>} : ValidateSession(sessionId)
  \/ Cleanup
  \/ Elapse
  \/ Return /\ UNCHANGED <<conc, web, aux>>

SpecAuth == InitAuth /\ [][NextAuth]_vars

\* ================================================================== claims
\* the vocabulary of the claims, stated on the text itself
BlockedKeywords ==
  { <<"d","r","o","p">>, <<"d","e","l","e","t","e">>, <<"u","p","d","a","t","e">>,
    <<"i","n","s","e","r","t">>, <<"a","l","t","e","r">>, <<"c","r","e","a","t","e">>,
    <<"t","r","u","n","c","a","t","e">> }

ContainsIgnoringCase(text, word) ==
  \E i \in 1..Len(text) : OccursAtIgnoringCase(text, word, i)

ContainsBlockedKeyword(text) ==
  \E kw \in BlockedKeywords : ContainsIgnoringCase(text, kw)

\* the text, trimmed and lower-cased, starts with `select`
IsSelectStatement(text) == StartsWith(Trim(ToLowerCase(text)), w_select)

\* FROM, then white space, then a word character
HasTableToken(text) ==
  \E i \in 1..Len(text) :
    /\ OccursAtIgnoringCase(text, w_from, i)
    /\ \E j \in (i + 5)..Len(text) :
         /\ \A k \in (i + 4)..(j - 1) : IsSpace(text[k])
         /\ IsWord(text[j])

KeywordViolation(e) ==
  e.kind = "Error" /\ e.message[1] = "Dangerous operation detected: "
NotSelectViolation(e) ==
  e.kind = "Error" /\ e.message = <<"Only SELECT queries are allowed">>
SafetyViolation(e) == KeywordViolation(e) \/ NotSelectViolation(e)
NotConnected(e) == e.kind = "Error" /\ e.message = <<"Supabase not connected">>
UnsupportedQuery(e) ==
  e.kind = "Error" /\ e.message = <<"Only SELECT queries are supported with Supabase">>

Custom == call.op = "executeCustomQuery"
\* an execute call made with a connection handle
Executed == call.op = "query" /\ supabase = "client"
Directions == {<<>>, <<w_asc>>, <<w_desc>>, <<Up(w_asc)>>, <<Up(w_desc)>>}

\* C1: a custom query whose text contains a blocked keyword, in any casing
\* and at any position, fails with a safety violation; nothing is handed to
\* execute and no backend request (table select or remote procedure) is
\* issued.
C1_BlockedKeywordRejected ==
  (Custom /\ ContainsBlockedKeyword(call.text)) =>
    /\ ~outcome.ok
    /\ SafetyViolation(outcome.error)
    /\ queried = <<>>
    /\ issued = <<>>

\* a connected manager was asked for a text with a mixed-case keyword in the
\* middle and refused it
C1_Witness ==
  /\ Custom
  /\ supabase = "client"
  /\ ~db.down
  /\ call.text = q_delete
  /\ ~outcome.ok

\* C2 as stated: a custom query whose text, trimmed and lower-cased, does not
\* start with `select` fails with the not-SELECT safety violation and is
\* never handed to execute.
C2_NotSelectAlwaysNotSelectViolation ==
  (Custom /\ ~IsSelectStatement(call.text)) =>
    /\ ~outcome.ok
    /\ NotSelectViolation(outcome.error)
    /\ queried = <<>>

\* C2 as amended: such a text is never handed to execute and fails with a
\* safety violation; the violation is the not-SELECT one when the text holds
\* no blocked keyword, and the blocked-keyword one when it does.
C2_NotSelectRejected ==
  (Custom /\ ~IsSelectStatement(call.text)) =>
    /\ ~outcome.ok
    /\ queried = <<>>
    /\ issued = <<>>
    /\ IF ContainsBlockedKeyword(call.text)
       THEN KeywordViolation(outcome.error)
       ELSE NotSelectViolation(outcome.error)

\* a text with `select` in it, but not at the start, and no blocked keyword
C2_Witness ==
  /\ Custom
  /\ supabase = "client"
  /\ ~db.down
  /\ call.text = q_explain
  /\ ~outcome.ok
  /\ NotSelectViolation(outcome.error)

\* C3: for an accepted text and cap n, the text handed to execute is the
\* original text followed by " LIMIT n" (n = 100 when no cap is given) when
\* the text has no `limit` in any casing, and the original text unchanged,
\* casing included, when it has one.
C3_LimitInjected ==
  (Custom /\ IsSelectStatement(call.text) /\ ~ContainsBlockedKeyword(call.text)) =>
    /\ Len(queried) = 1
    /\ queried[1].text =
         IF ContainsIgnoringCase(call.text, w_limit) THEN call.text
         ELSE call.text \o <<" ","L","I","M","I","T"," ">>
              \o (IF call.limit.t = "undefined" THEN <<"1","0","0">>
                  ELSE NatToDigits(call.limit.v))

\* a padded text without limit, called without a cap: LIMIT 100 was appended
\* to the untrimmed original
C3_Witness ==
  /\ Custom
  /\ call.text = q_padded
  /\ call.limit.t = "undefined"
  /\ Len(queried) = 1
  /\ queried[1].text = q_padded \o <<" ","L","I","M","I","T"," ","1","0","0">>

\* C4: a custom query called with a cap n returns at most n rows, whatever
\* the size of the backing table.
C4_AtMostLimitRows ==
  (Custom /\ call.limit.t = "num" /\ outcome.ok) =>
    Len(outcome.content) <= call.limit.v

\* C5: execute called before connect or after disconnect fails with
\* NotConnected and issues no backend request, for every text and parameters.
C5_NotConnected ==
  (call.op = "query" /\ lifecycle \in {"constructed", "disconnected"}) =>
    /\ ~outcome.ok
    /\ NotConnected(outcome.error)
    /\ issued = <<>>

\* execute of a plain select with parameters after a disconnect
C5_Witness ==
  /\ call.op = "query"
  /\ lifecycle = "disconnected"
  /\ call.text = q_plain
  /\ call.params.t = "array"
  /\ ~outcome.ok

\* C6: execute of a text that is not a SELECT statement fails with
\* UnsupportedQuery and issues no backend request.
C6_OnlySelectStatements ==
  (Executed /\ ~IsSelectStatement(call.text)) =>
    /\ ~outcome.ok
    /\ UnsupportedQuery(outcome.error)
    /\ issued = <<>>

\* the part of C7 that does not depend on how a failure is reported: a SELECT
\* text with no token after FROM issues exactly one remote-procedure call
\* with the raw text and the parameters (none given: the empty list), no
\* table request, and on success returns the procedure's rows
RemoteProcedureUsed ==
  /\ issued = <<<<Rpc("execute_custom_query", call.text,
                     IF call.params.t = "array" THEN call.params.v ELSE <<>>)>>>>
  /\ outcome.ok <=> Respond(db, issued[1]).error = Null
  /\ outcome.ok =>
       /\ Respond(db, issued[1]).data.t = "rows" =>
            outcome.result.rows = Respond(db, issued[1]).data.v
       /\ Respond(db, issued[1]).data.t = "null" => outcome.result.rows = <<>>

NoTableSelect ==
  Executed /\ ContainsIgnoringCase(call.text, w_select) /\ ~HasTableToken(call.text)

C8_PatternFilterIssued ==
  \A n \in 1..(MaxParams + 1) :
    (Executed /\ call.text = q_ilike(n) /\ call.params.t = "array"
       /\ n <= Len(call.params.v)) =>
      /\ issued = <<<<From(t_t), SelectAll, Ilike(c_name, call.params.v[n]),
                      Limit(Num(1))>>>>
      /\ outcome.ok => outcome.result.rowCount <= 1

\* C9: a SELECT on t with ORDER BY x [ASC|DESC] LIMIT $i OFFSET $j issues one
\* projection of t ordered on x (descending with DESC, ascending without)
\* and restricted to the rows offset .. offset+limit-1.
C9_OrderedRange ==
  \A dir \in Directions, i, j \in 1..(MaxParams + 1) :
    (Executed /\ call.text = q_page(dir, i, j) /\ call.params.t = "array"
       /\ i <= Len(call.params.v) /\ j <= Len(call.params.v)
       /\ call.params.v[i].t = "num" /\ call.params.v[j].t = "num") =>
      /\ Len(issued) = 1
      /\ issued[1][1] = From(t_t)
      /\ \E k \in 1..Len(issued[1]) :
           issued[1][k] = Order(c_x, ToLowerCase(dir) # <<w_desc>>)
      /\ Window(issued[1], NoWindow) =
           [offset |-> call.params.v[j].v, limit |-> call.params.v[i].v]

\* a clause of the text names a parameter beyond the end of the list
OutOfRangeReference ==
  /\ call.params.t = "array"
  /\ \/ \E n \in 1..(MaxParams + 1) :
          call.text = q_ilike(n) /\ n > Len(call.params.v)
     \/ call.text = q_limitOnly /\ Len(call.params.v) < 1
     \/ \E dir \in Directions, i, j \in 1..(MaxParams + 1) :
          /\ call.text = q_page(dir, i, j)
          /\ (i > Len(call.params.v) \/ j > Len(call.params.v))

\* C10: when a clause references $n with n outside 1..|params|, execute
\* fails with UnsupportedQuery; it does not drop the clause and run a
\* broader query.
C10_OutOfRangeParameterRejected ==
  (Executed /\ OutOfRangeReference) =>
    /\ ~outcome.ok
    /\ UnsupportedQuery(outcome.error)

\* the backend's answer to the request an execute call issued
Answer == Respond(db, issued[1])

\* C11: every ResultEnvelope execute returns, on every path and also when
\* the backend returns no data, has rowCount = the number of rows and
\* command = "SELECT", and its rows are the backend's rows in the backend's
\* order (none when the backend returned no data).
C11_EnvelopeInvariant ==
  (call.op = "query" /\ outcome.ok) =>
    /\ outcome.result.rowCount = Len(outcome.result.rows)
    /\ outcome.result.command = "SELECT"
    /\ Len(issued) = 1
    /\ outcome.result.rows = IF Answer.data.t = "rows" THEN Answer.data.v ELSE <<>>

\* a plain select that returned several rows
C11_Witness ==
  /\ call.op = "query"
  /\ call.text = q_plain
  /\ outcome.ok
  /\ outcome.result.rowCount >= 2
  /\ outcome.result.rowCount = Cardinality(DOMAIN db.tables[t_t])

ZeroRowProbe(t) == <<From(t), SelectAll, Limit(Num(0))>>

\* C13: exists(tableName) issues one zero-row-limited projection of the
\* table (and nothing else) and returns true exactly when the backend's
\* answer carries no error, a success with zero rows included; for every
\* backend error, whatever its message, it returns false.
C13_ExistsIffNoError ==
  (call.op = "tableExists") =>
    /\ outcome.ok
    /\ issued \in {<<>>, <<ZeroRowProbe(call.table)>>}
    /\ (supabase = "client") => (issued = <<ZeroRowProbe(call.table)>>)
    /\ outcome.value = (issued # <<>> /\ Respond(db, issued[1]).error = Null)

\* a table with zero rows is found; C13's success case
C13_Witness ==
  /\ call.op = "tableExists"
  /\ call.table = t_vitadao
  /\ issued # <<>>
  /\ Respond(db, issued[1]) = [data |-> Data(<<>>), error |-> Null]
  /\ outcome.value = TRUE

\* C14: the result of listKnownEntities never holds two internal names that
\* are equal when case is ignored.
C14_NoCaseInsensitiveDuplicates ==
  (call.op = "getDAONames") =>
    \A i, j \in 1..Len(outcome.value) :
      (i # j) => (ToLowerCase(outcome.value[i]) # ToLowerCase(outcome.value[j]))

\* the logical name of a candidate table: without its dao_ prefix and its
\* _tweets suffix
LogicalName(t) == SubSeq(t, Len(w_dao_) + 1, Len(t) - Len(w__tweets))

\* the probe of table t succeeds
ProbeSucceeds(t) ==
  supabase = "client" /\ Respond(db, ZeroRowProbe(t)).error = Null

\* C15: with no registry table, listKnownEntities returns exactly the
\* logical names of the candidate tables whose probe succeeds.
C15_NamesOfFoundCandidates ==
  (call.op = "getDAONames" /\ t_daos \notin DOMAIN db.tables) =>
    /\ {outcome.value[i] : i \in 1..Len(outcome.value)}
         = {LogicalName(knownDAOTables[k]) :
              k \in {n \in 1..Len(knownDAOTables) : ProbeSucceeds(knownDAOTables[n])}}
    /\ \A i, j \in 1..Len(outcome.value) :
         (i # j) => (outcome.value[i] # outcome.value[j])

\* no registry, both candidate tables found
C15_Witness ==
  /\ call.op = "getDAONames"
  /\ t_daos \notin DOMAIN db.tables
  /\ supabase = "client"
  /\ ~db.down
  /\ outcome.value = <<n_athenadao, LogicalName(t_vitadao)>>

\* the rows of the registry table, none when there is no such table
RegistryRows == IF t_daos \in DOMAIN db.tables THEN db.tables[t_daos] ELSE <<>>

\* C18: in the output of listDAOs, is_registered is true exactly when the
\* registry table holds a row whose name equals the internal name when case
\* is ignored, for every limit and offset.
C18_RegisteredIffInRegistry ==
  (call.op = "listDAOs" /\ outcome.ok) =>
    \A i \in 1..Len(outcome.list) :
      outcome.list[i].is_registered
        <=> (\E k \in 1..Len(RegistryRows) :
               ToLowerCase(RegistryRows[k][c_name].v)
                 = ToLowerCase(outcome.list[i].internal_name))

\* C19: listDAOs(limit, offset) with a limit between 1 and 100 returns at
\* most limit DAOs.
C19_AtMostLimitDAOs ==
  (call.op = "listDAOs" /\ outcome.ok /\ call.limit # Undefined) =>
    Len(outcome.list) <= call.limit.v

\* ------------------------------------------- claims on calls in flight together
\* C16: two execute calls with identical arguments, with no connect or
\* disconnect call between them and the backend unchanged, yield identical
\* outcomes (and issue identical requests): the first call changes no state
\* the second reads.
C16_ExecuteIdempotent ==
  \A a, b \in Callers :
    (/\ slots[a].at = "done"
     /\ slots[b].at = "done"
     /\ slots[a].call.op = "query"
     /\ slots[a].call = slots[b].call
     /\ slots[a].epoch = slots[b].epoch)
    => /\ slots[a].outcome = slots[b].outcome
       /\ slots[a].request = slots[b].request

\* the same failing select run twice, the second call started after the
\* first had completed
C16_Witness ==
  /\ slots["c1"].at = "done"
  /\ slots["c2"].at = "done"
  /\ ~slots["c1"].overlapped
  /\ ~slots["c2"].overlapped
  /\ slots["c1"].call = [op |-> "query", text |-> q_missing, params |-> Undefined]
  /\ slots["c2"].call = slots["c1"].call
  /\ slots["c1"].epoch = slots["c2"].epoch
  /\ slots["c1"].request # <<>>
  /\ ~slots["c2"].outcome.ok

\* what a call returns when it runs alone from the state it started in
Alone(s) ==
  IF s.call.op = "query"
  THEN query(s.handle, db, s.call.text, s.call.params)
  ELSE LET r == tableExists(s.handle, db, s.call.table)
       IN [outcome |-> [ok |-> TRUE, value |-> r.value], issued |-> r.issued]

\* C17: execute and exists calls in flight together are independent: for
\* every interleaving of their steps over an unchanged backend, each call
\* returns what it would return run alone, having issued the same request.
C17_ConcurrentCallsIndependent ==
  \A k \in Callers :
    (slots[k].at = "done") =>
      \E alone \in {Alone(slots[k])} :
        /\ slots[k].outcome = alone.outcome
        /\ slots[k].request = alone.issued

\* an execute call and an exists call that overlapped and ended differently
C17_Witness ==
  /\ slots["c1"].at = "done"
  /\ slots["c2"].at = "done"
  /\ slots["c1"].overlapped
  /\ slots["c2"].overlapped
  /\ slots["c1"].call.op = "query"
  /\ slots["c1"].outcome.ok
  /\ slots["c1"].outcome.result.rowCount = MaxRows
  /\ slots["c2"].call = [op |-> "tableExists", table |-> t_none]
  /\ slots["c2"].outcome.value = FALSE

\* ------------------------------------------------- claims on the HTTP server
\* C20: when authentication is enabled, no request to /mcp (POST, GET or
\* DELETE) reaches a transport's handleRequest unless it carries the
\* configured team API key.
C20_McpRequiresApiKey ==
  (http.served /\ http.handled /\ config.enableAuth) =>
    \/ http.req.xApiKey = config.teamApiKey
    \/ http.req.authorization = <<"Bearer ">> \o config.teamApiKey

\* --------------------------------------------- claims on the request's shape
\* the single request of an execute call that found a table
TableRequest == Executed /\ Len(issued) = 1 /\ issued[1][1].op = "from"
HasStep(chain, ops) == \E k \in 1..Len(chain) : chain[k].op \in ops

\* the text's clause, matched by m at capture k, names a parameter of the list
Bound(m, k) ==
  /\ call.params.t = "array"
  /\ m.ok
  /\ ParamIndex(m, k) \in 0..(Len(call.params.v) - 1)

\* WHERE ... col ILIKE $n with $n a parameter of the list
PatternBound ==
  Includes(ToLowerCase(call.text), w_where) /\ Bound(ilikeMatch(call.text), 2)
\* LIMIT $i with $i a parameter of the list
LimitBound == Bound(limitMatch(call.text), 1)

\* C23: when a table is found, execute takes the pattern branch whenever a
\* WHERE ... ILIKE $n applies, the paginated branch only when the pattern
\* branch does not apply and LIMIT $i does, and the plain select only when
\* neither applies; one request per call.
C23_BranchPriority ==
  (Executed /\ issued # <<>> /\ issued[1][1].op = "from") =>
    /\ Len(issued) = 1
    /\ IF PatternBound THEN HasStep(issued[1], {"ilike"})
       ELSE IF LimitBound
       THEN ~HasStep(issued[1], {"ilike"}) /\ HasStep(issued[1], {"limit"})
       ELSE Len(issued[1]) = 2 /\ issued[1][2] = SelectAll

\* a request of the paginated branch
PaginatedRequest ==
  /\ TableRequest
  /\ ~HasStep(issued[1], {"ilike"})
  /\ HasStep(issued[1], {"order", "limit", "range"})

\* the steps of a chain come in the order of ranks
InOrder(chain, ranks) ==
  \A i, j \in 1..Len(chain) : (i < j) => (ranks[chain[i].op] < ranks[chain[j].op])

\* C24 as stated: the paginated request applies the projection, then the
\* ordering, then the range, then the limit.
C24_RangeBeforeLimit ==
  PaginatedRequest =>
    InOrder(issued[1], [from |-> 0, select |-> 1, order |-> 2, range |-> 3, limit |-> 4])

\* C24 as amended: the paginated request applies the projection, then the
\* optional ordering, then the optional limit, then the optional range.
C24_LimitBeforeRange ==
  PaginatedRequest =>
    InOrder(issued[1], [from |-> 0, select |-> 1, order |-> 2, limit |-> 3, range |-> 4])

\* a request with an ordering, a limit and a range
C24_Witness ==
  /\ PaginatedRequest
  /\ Len(issued[1]) = 5
  /\ HasStep(issued[1], {"order"})
  /\ HasStep(issued[1], {"limit"})
  /\ HasStep(issued[1], {"range"})

\* C25: for a WHERE clause with several predicates, execute issues a
\* request with exactly one filter, that of the first col ILIKE $n of the
\* text, and ignores the others.
C25_OnlyFirstPredicate ==
  (Executed /\ call.text = q_ilikeTwo /\ call.params.t = "array"
     /\ Len(call.params.v) = 2) =>
    issued = <<<<From(t_t), SelectAll, Ilike(c_x, call.params.v[2]), Limit(Num(1))>>>>

\* C29: after a connect() that failed its health check the handle is
\* absent, and an execute call made without a successful connect() fails
\* with NotConnected.
C29_ConnectedOnlyAfterSuccess ==
  /\ (lifecycle = "connectFailed") => (supabase = "null")
  /\ (call.op = "query" /\ lifecycle # "connected") =>
       (~outcome.ok /\ NotConnected(outcome.error))

\* C30: a parameter that is present with the value 0 or the empty string
\* is honoured: LIMIT $1 with 0 issues a limit of 0, OFFSET $2 with 0
\* issues the range 0 .. limit-1, and ILIKE $1 with an empty pattern issues
\* the pattern filter capped to one row.
C30_FalsyParametersHonoured ==
  (Executed /\ call.params.t = "array") =>
    /\ (call.text = q_limitOnly /\ Len(call.params.v) >= 1
          /\ call.params.v[1] = Num(0))
         => (issued = <<<<From(t_t), SelectAll, Limit(Num(0))>>>>)
    /\ (call.text = q_page(<<>>, 1, 2) /\ Len(call.params.v) = 2
          /\ call.params.v[1].t = "num" /\ call.params.v[1].v > 0
          /\ call.params.v[2] = Num(0))
         => (Len(issued) = 1
             /\ \E k \in 1..Len(issued[1]) :
                  issued[1][k] = Range(Num(0), Num(call.params.v[1].v - 1)))
    /\ (call.text = q_ilike(1) /\ Len(call.params.v) >= 1
          /\ call.params.v[1] = Str(<<>>))
         => (issued = <<<<From(t_t), SelectAll, Ilike(c_name, Str(<<>>)),
                          Limit(Num(1))>>>>)

\* C27: exists never fails: whatever the table name and the backend's
\* answer, and also without a connection handle, it returns a boolean and
\* raises nothing; without a handle it returns false and issues no request.
C27_ExistsNeverFails ==
  (call.op = "tableExists") =>
    /\ outcome.ok
    /\ outcome.value \in BOOLEAN
    /\ (supabase = "null") => (outcome.value = FALSE /\ issued = <<>>)

\* exists is asked, after a disconnect, for a table the backend has
C27_Witness ==
  /\ call.op = "tableExists"
  /\ lifecycle = "disconnected"
  /\ supabase = "null"
  /\ ~db.down
  /\ call.table \in DOMAIN db.tables
  /\ outcome = [ok |-> TRUE, value |-> FALSE]

\* ---------------------------------------------- claims on the backend over time
\* how many requests of a call are the zero-row probe of table t
ProbesOf(t) == Cardinality({k \in 1..Len(issued) : issued[k] = ZeroRowProbe(t)})

\* C26: no verdict is cached: with a connection, every exists call issues
\* one probe and every listKnownEntities call probes the registry and every
\* candidate table once more, and what they return is what the backend
\* holds at the time of the call, also when a table was created or dropped
\* since an earlier call.
C26_NoCachedVerdict ==
  /\ (call.op = "tableExists" /\ supabase = "client") =>
       /\ issued = <<ZeroRowProbe(call.table)>>
       /\ outcome.value = (call.table \in DOMAIN db.tables)
  /\ (call.op = "getDAONames" /\ supabase = "client") =>
       /\ ProbesOf(t_daos) = 1
       /\ \A i \in 1..Len(knownDAOTables) :
            /\ ProbesOf(knownDAOTables[i]) = 1
            /\ (knownDAOTables[i] \in DOMAIN db.tables) =>
                 (\E k \in 1..Len(outcome.value) :
                    outcome.value[k] = LogicalName(knownDAOTables[i]))
       /\ (\E k \in 1..Len(issued) : issued[k] = <<From(t_daos), Select(c_name)>>)
            <=> (t_daos \in DOMAIN db.tables)

\* exists finds a table that its previous call for the same table did not
C26_Witness ==
  /\ call.op = "tableExists"
  /\ supabase = "client"
  /\ seen.asked
  /\ seen.before = "false"
  /\ outcome.value = TRUE

\* ------------------------------------------ claims on getDAONames step by step
\* C28: when disconnect() runs while getDAONames is suspended (and no
\* connect() follows), getDAONames still returns a plain list: it holds the
\* names collected before the first attempt without a handle and no name
\* of a table probed after it, with no sign of the truncation.
C28_DisconnectTruncatesSilently ==
  (listing.at = "done" /\ listing.cut /\ ~listing.restored) =>
    listing.result = Unique(listing.before)

\* the list was cut after a first name: a later table of the backend is
\* missing from it
C28_Witness ==
  /\ listing.at = "done"
  /\ listing.cut
  /\ ~listing.restored
  /\ listing.result = <<n_athenadao>>
  /\ t_vitadao \in DOMAIN db.tables

\* ------------------------------------------------------- claims on sessions
\* what C21 says of one validateSession call
ValidatedStep ==
  (pc = "idle" /\ pc' = "returned" /\ call'.op = "validateSession") =>
    LET id == call'.sessionId
    IN /\ (outcome'.value # Null) =>
            /\ config.enableAuth
            /\ id \in DOMAIN activeSessions
            /\ activeSessions[id].expiresAt >= now
            /\ outcome'.value = Str(activeSessions[id].userId)
       /\ (config.enableAuth /\ id \in DOMAIN activeSessions
             /\ activeSessions[id].expiresAt < now) =>
            /\ outcome'.value = Null
            /\ id \notin DOMAIN activeSessions'
            /\ id \in {r.id : r \in retired'}
       /\ (id \in RetiredIds) => (outcome'.value = Null)

\* C21: with authentication enabled validateSession returns a user id only
\* for a session createSession stored and whose expiry has not passed; a
\* call after the expiry returns null and removes the session, and the id
\* validates in no later state.
C21_ExpiredSessionsStayInvalid ==
  [][ValidatedStep /\ (RetiredIds' \cap DOMAIN activeSessions' = {})]_vars

\* a session removed as expired is asked for again, later, and is refused
C21_Witness ==
  /\ config.enableAuth
  /\ call.op = "validateSession"
  /\ \E r \in retired : r.id = call.sessionId /\ r.at < now
  /\ outcome.value = Null

\* ------------------------------------------------- claims on the rate limiter
\* C22: for every client the rate limiter passes on at most MaxRequests
\* requests with times inside any window of WindowMs; the next one is
\* answered 429 and not passed on; a client is turned away only for its
\* own requests, never for another client's.
C22_AtMostMaxRequestsPerWindow ==
  /\ \A c \in RateClients : Len(admitted[c]) <= MaxRequests
  /\ (http.served /\ http.status = 429) =>
       /\ http.by = "rateLimitMiddleware"
       /\ ~http.handled
       /\ Len(admitted[http.req.ip]) = MaxRequests
  /\ (http.served /\ http.status # 429) =>
       /\ admitted[http.req.ip] # <<>>
       /\ admitted[http.req.ip][Len(admitted[http.req.ip])] = now

\* the first client's 101st request in a window that has slid is turned
\* away while the second client's request was passed on
C22_Witness ==
  /\ http.served
  /\ http.status = 429
  /\ http.req.ip = "ip1"
  /\ Len(admitted["ip1"]) = MaxRequests
  /\ admitted["ip1"][1] # admitted["ip1"][MaxRequests]
  /\ admitted["ip2"] # <<>>

====
